---- MODULE Spec2Model ----
(***************************************************************************)
(* finsim: the Monte Carlo engine of simulation_core.py (Simulator,        *)
(* Policies) over the entities of financial_structs.py.                    *)
(*                                                                         *)
(* Money is a whole number of dollars.  A rate is the code's rate as a     *)
(* whole number per month (path_inf / 12, rate / 12, a monthly return), so *)
(* value * (1 + rate) is computed exactly; allocation is 0 or 1; tax_rate  *)
(* and maintenance_rate are whole percents and the amounts they are        *)
(* applied to are chosen so that the division is exact.                    *)
(***************************************************************************)
EXTENDS Integers, Sequences, FiniteSets, TLC

VARIABLES
  initial_portfolio,  \* Simulator.initial_portfolio
  config,             \* Simulator.config: the caller's dict, by reference
  caller_config,      \* the configuration as it was when the caller supplied it
  scenarios,          \* Simulator.scenarios: scenarios[p][t] is path p's month t
  results,            \* Simulator.results: net_worth[t][p], liquidity_failure[p]
  first_results,      \* the caller's copy of the results of the first run
  event_schedule,     \* run: event_schedule, {month_idx: <<event, ...>>}
  pc,                 \* where the caller / run is
  run_no,             \* 1 during the first run, 2 during the repeated one
  p,                  \* run: the path loop's index
  t,                  \* run: the month loop's index (months done in path p)
  port,               \* run: this path's portfolio (the object port names)
  port_ref,           \* run: which object port names
  failed,             \* run: this path's failed flag
  current_rent_base,  \* run: this path's rent base
  locals,             \* run: the values the last month's iteration computed
  sol_in,             \* Policies.standard_solvency: [portfolio, cash_deficit]
  sol_out,            \* Policies.standard_solvency: [portfolio, remaining]
  initial_state,      \* simulator.Simulator.initial_state
  scheduled_events,   \* simulator.Simulator.scheduled_events
  market_paths,       \* run_single_simulation: market_paths[t], the step's data
  state,              \* run_single_simulation: the deep copy it simulates
  history,            \* run_single_simulation: the snapshots appended so far
  executed,           \* the events executed so far: <<[step, event], ...>>
  requested,          \* config['years'] (in months) and config['num_paths']
  error,              \* the exception raised to the caller, "none" if none
  goal,               \* the caller's target_nw and target_probability
  seek,               \* backward_goal_seek: low_spend, high_spend, best_spend
  test_sim,           \* backward_goal_seek: test_sim and its run so far
  report,             \* backward_goal_seek: the outcome it printed
  first_seek,         \* the outcome of the caller's first search
  optimizer           \* optimize_for_goals: goals, objective_function, res

vars == <<initial_portfolio, config, caller_config, scenarios, results,
          first_results, event_schedule, pc, run_no, p, t, port, port_ref,
          failed, current_rent_base, locals, sol_in, sol_out,
          initial_state, scheduled_events, market_paths, state, history,
          executed, requested, error, goal, seek, test_sim, report,
          first_seek, optimizer>>

\* the variables of the second engine
engineVars == <<initial_state, scheduled_events, market_paths, state, history,
                executed>>

\* the variables of the construction of a Simulator
configVars == <<requested, error>>

\* the variables of Analyzer.backward_goal_seek
seekVars == <<goal, seek, test_sim, report, first_seek, optimizer>>

simVarsButPc == <<initial_portfolio, config, caller_config, scenarios, results,
                  first_results, event_schedule, run_no, p, t, port, port_ref,
                  failed, current_rent_base, locals>>

----------------------------------------------------------------------------
(* Bounds and program constants *)

Months == 3

NumPaths == 2

FAILURE_TOLERANCE == 100

SHOCK_SIZE == 5000

Paths == 0 .. (NumPaths - 1)

MonthIdx == 0 .. (Months - 1)

----------------------------------------------------------------------------
(* Helpers over sequences *)

RECURSIVE SumSeq(_)
SumSeq(s) == IF s = <<>> THEN 0 ELSE Head(s) + SumSeq(Tail(s))

Min(a, b) == IF a <= b THEN a ELSE b

Max(a, b) == IF a >= b THEN a ELSE b

Abs(a) == IF a < 0 THEN -a ELSE a

----------------------------------------------------------------------------
(* financial_structs.py *)

\* Asset(name, value, allocation_to_market)
Asset(name, value, allocation) ==
  [kind |-> "Asset", name |-> name, value |-> value,
   allocation |-> allocation, maintenance_rate |-> 0]

\* RealProperty(name, value, maintenance_cost_annual), the rate in percent
RealProperty(name, value, maintenance_pct) ==
  [kind |-> "RealProperty", name |-> name, value |-> value,
   allocation |-> 0, maintenance_rate |-> maintenance_pct]

\* Liability(name, principal, interest_rate, monthly_payment, is_mortgage);
\* rate is interest_rate / 12
Liability(name, principal, rate, payment, is_mortgage) ==
  [name |-> name, value |-> principal, rate |-> rate, payment |-> payment,
   is_mortgage |-> is_mortgage]

\* Asset.grow(market_return, risk_free_rate); risk_free is risk_free_rate / 12
AssetGrow(a, market_return, risk_free) ==
  LET rate == (market_return * a.allocation) + (risk_free * (1 - a.allocation))
  IN  [a EXCEPT !.value = a.value * (1 + rate)]

\* RealProperty.grow(housing_growth_rate)
PropertyGrow(a, housing_growth_rate) ==
  [a EXCEPT !.value = a.value * (1 + housing_growth_rate)]

\* RealProperty.get_maintenance_cost: (value * maintenance_rate) / 12.0
get_maintenance_cost(a) == (a.value * a.maintenance_rate) \div 1200

\* Liability.step without the clamp of principal_pay at the balance
LiabilityStepUnclamped(l, variable_rate_adjuster) ==
  LET effective_rate == l.rate + variable_rate_adjuster
      interest == l.value * effective_rate
      principal_pay == l.payment - interest
  IN  [liab |-> [l EXCEPT !.value = l.value - principal_pay],
       interest |-> interest, principal |-> principal_pay]

\* Liability.step(variable_rate_adjuster): the liability afterwards, and the
\* pair the method returns
LiabilityStep(l, variable_rate_adjuster) ==
  LET effective_rate == l.rate + variable_rate_adjuster
      interest == l.value * effective_rate
      amortization == l.payment - interest
      principal_pay == IF amortization > l.value THEN l.value ELSE amortization
  IN  [liab |-> [l EXCEPT !.value = l.value - principal_pay],
       interest |-> interest, principal |-> principal_pay]

\* Portfolio.total_assets
total_assets(pf) == SumSeq([i \in DOMAIN pf.assets |-> pf.assets[i].value])

\* Portfolio.total_liabilities
total_liabilities(pf) ==
  SumSeq([i \in DOMAIN pf.liabilities |-> pf.liabilities[i].value])

\* Portfolio.net_worth
net_worth(pf) == total_assets(pf) - total_liabilities(pf)

\* Portfolio.add_asset
add_asset(pf, a) == [pf EXCEPT !.assets = Append(pf.assets, a)]

\* Portfolio.add_liability
add_liability(pf, l) == [pf EXCEPT !.liabilities = Append(pf.liabilities, l)]

----------------------------------------------------------------------------
(* simulation_core.py: Policies *)

\* the filter without its allocation test
IsLiquidAnyAsset(a) == a.kind = "Asset"

\* standard_solvency: the filter that builds liquid_assets
IsLiquid(a) == a.kind = "Asset" /\ a.allocation > 0

\* the loop body with the else branch's asset.value = 0 left out
SellAssetKeep(asset, remaining_deficit) ==
  IF asset.value >= remaining_deficit
  THEN [asset |-> [asset EXCEPT !.value = asset.value - remaining_deficit],
        remaining |-> 0]
  ELSE [asset |-> asset, remaining |-> remaining_deficit - asset.value]

\* standard_solvency: the body of the for loop for one liquid asset, given
\* remaining_deficit > 0: the asset and remaining_deficit afterwards
SellAsset(asset, remaining_deficit) ==
  IF asset.value >= remaining_deficit
  THEN [asset |-> [asset EXCEPT !.value = asset.value - remaining_deficit],
        remaining |-> 0]
  ELSE [asset |-> [asset EXCEPT !.value = 0],
        remaining |-> remaining_deficit - asset.value]

\* standard_solvency: the for loop from entry i of portfolio.assets on
\* (entries that are not in liquid_assets are passed over)
RECURSIVE SolvencyLoop(_, _, _)
SolvencyLoop(assets, i, remaining_deficit) ==
  IF i > Len(assets) THEN [assets |-> assets, remaining |-> remaining_deficit]
  ELSE IF ~IsLiquid(assets[i]) THEN SolvencyLoop(assets, i + 1, remaining_deficit)
  ELSE IF remaining_deficit <= 0
       THEN [assets |-> assets, remaining |-> remaining_deficit]
  ELSE LET sold == SellAsset(assets[i], remaining_deficit)
       IN  SolvencyLoop([assets EXCEPT ![i] = sold.asset], i + 1, sold.remaining)

\* Policies.standard_solvency(portfolio, cash_deficit): the portfolio
\* afterwards and the returned remaining_deficit
standard_solvency(portfolio, cash_deficit) ==
  LET r == SolvencyLoop(portfolio.assets, 1, cash_deficit)
  IN  [portfolio |-> [portfolio EXCEPT !.assets = r.assets],
       remaining |-> r.remaining]

----------------------------------------------------------------------------
(* simulation_core.py: Simulator._map_events, Simulator._apply_event *)

\* An event of config['events'].  Every event carries every key (so
\* event.get('down_payment', cost) never takes its default); the keys a type
\* does not read are 0 / FALSE / "".
PurchaseEvent(month, name, value, down_payment, rate, monthly_payment, is_real_estate, is_primary_home) ==
  [type |-> "purchase_asset", month |-> month, name |-> name, value |-> value,
   down_payment |-> down_payment, rate |-> rate,
   monthly_payment |-> monthly_payment, is_real_estate |-> is_real_estate,
   is_primary_home |-> is_primary_home, param |-> ""]

ParamChangeEvent(month, param, value) ==
  [type |-> "param_change", month |-> month, name |-> "", value |-> value,
   down_payment |-> 0, rate |-> 0, monthly_payment |-> 0,
   is_real_estate |-> FALSE, is_primary_home |-> FALSE, param |-> param]

\* _map_events: is the event entered into the schedule
IsScheduled(event, total_months) == event.month < total_months

\* the list of one month with each event inserted in front
EventsOfMonthPrepend(events, m, total_months) ==
  LET due == SelectSeq(events, LAMBDA e : e.month < total_months /\ e.month = m)
  IN  [i \in DOMAIN due |-> due[Len(due) + 1 - i]]

\* _map_events: the list kept under one month, in the order of the appends
EventsOfMonth(events, m, total_months) ==
  SelectSeq(events, LAMBDA e : IsScheduled(e, total_months) /\ e.month = m)

\* Simulator._map_events(total_months)
map_events(events, total_months) ==
  LET keys == {events[i].month : i \in {j \in DOMAIN events :
                                          IsScheduled(events[j], total_months)}}
  IN  [m \in keys |-> EventsOfMonth(events, m, total_months)]

\* _apply_event with the down payment never taken from cash
apply_eventKeepCash(portfolio, monthly_spend, event, current_rent) ==
  IF event.type = "purchase_asset" THEN
    LET cost == event.value
        loan_amount == cost - event.down_payment
        new_asset == IF event.is_real_estate
                     THEN RealProperty(event.name, cost, 1)
                     ELSE Asset(event.name, cost, 0)
        with_asset == add_asset(portfolio, new_asset)
    IN  [portfolio |-> IF loan_amount > 0
                       THEN add_liability(with_asset,
                              Liability("Loan-" \o event.name, loan_amount, event.rate,
                                        event.monthly_payment, event.is_real_estate))
                       ELSE with_asset,
         monthly_spend |-> monthly_spend,
         rent |-> IF event.is_real_estate /\ event.is_primary_home
                  THEN 0 ELSE current_rent]
  ELSE [portfolio |-> portfolio,
        monthly_spend |-> IF event.type = "param_change"
                             /\ event.param = "monthly_spend"
                          THEN event.value ELSE monthly_spend,
        rent |-> current_rent]

\* _apply_event with a Liability originated for every purchase
apply_eventAlwaysBorrow(portfolio, monthly_spend, event, current_rent) ==
  IF event.type = "purchase_asset" THEN
    LET cost == event.value
        down_payment == event.down_payment
        loan_amount == cost - down_payment
        paid == [portfolio EXCEPT !.assets[1].value = @ - down_payment]
        new_asset == IF event.is_real_estate
                     THEN RealProperty(event.name, cost, 1)
                     ELSE Asset(event.name, cost, 0)
        with_asset == add_asset(paid, new_asset)
    IN  [portfolio |-> add_liability(with_asset,
                         Liability("Loan-" \o event.name, loan_amount, event.rate,
                                   event.monthly_payment, event.is_real_estate)),
         monthly_spend |-> monthly_spend,
         rent |-> IF event.is_real_estate /\ event.is_primary_home
                  THEN 0 ELSE current_rent]
  ELSE [portfolio |-> portfolio,
        monthly_spend |-> IF event.type = "param_change"
                             /\ event.param = "monthly_spend"
                          THEN event.value ELSE monthly_spend,
        rent |-> current_rent]

\* Simulator._apply_event(portfolio, event, current_housing_factor,
\* current_rent): the portfolio and config['monthly_spend'] afterwards, and
\* the returned rent.  The financed remainder's Liability is named "Loan-"
\* and the event's name; the purchased RealProperty has the default
\* maintenance of 1 %.
apply_event(portfolio, monthly_spend, event, current_rent) ==
  IF event.type = "purchase_asset" THEN
    LET cost == event.value
        down_payment == event.down_payment
        loan_amount == cost - down_payment
        paid == [portfolio EXCEPT !.assets[1].value = @ - down_payment]
        new_asset == IF event.is_real_estate
                     THEN RealProperty(event.name, cost, 1)
                     ELSE Asset(event.name, cost, 0)
        new_rent == IF event.is_real_estate /\ event.is_primary_home
                    THEN 0 ELSE current_rent
        with_asset == add_asset(paid, new_asset)
        with_liab == IF loan_amount > 0
                     THEN add_liability(with_asset,
                            Liability("Loan-" \o event.name, loan_amount, event.rate,
                                      event.monthly_payment, event.is_real_estate))
                     ELSE with_asset
    IN  [portfolio |-> with_liab, monthly_spend |-> monthly_spend,
         rent |-> new_rent]
  ELSE IF event.type = "param_change" THEN
    [portfolio |-> portfolio,
     monthly_spend |-> IF event.param = "monthly_spend" THEN event.value
                       ELSE monthly_spend,
     rent |-> current_rent]
  ELSE [portfolio |-> portfolio, monthly_spend |-> monthly_spend,
        rent |-> current_rent]

\* run, lines 93-95: the events of the month, applied in the list's order
RECURSIVE ApplyEvents(_, _, _, _)
ApplyEvents(portfolio, monthly_spend, events, current_rent) ==
  IF events = <<>>
  THEN [portfolio |-> portfolio, monthly_spend |-> monthly_spend,
        rent |-> current_rent]
  ELSE LET r == apply_event(portfolio, monthly_spend, Head(events), current_rent)
       IN  ApplyEvents(r.portfolio, r.monthly_spend, Tail(events), r.rent)

\* the events of the month before, as a loop that applies them a step late
ScheduledAtLate(schedule, month) ==
  IF month - 1 \in DOMAIN schedule THEN schedule[month - 1] ELSE <<>>

\* run, line 93: the events run applies at step month
ScheduledAt(schedule, month) ==
  IF month \in DOMAIN schedule THEN schedule[month] ELSE <<>>

----------------------------------------------------------------------------
(* simulation_core.py: Simulator.run, the body of the month loop *)

\* A month of a path of the scenarios: market_returns, inflation / 12,
\* housing_growth, salary_growth, unforseen_shocks, interest_rates / 12
Factors(mkt, inf, house, sal, shock, rates) ==
  [mkt |-> mkt, inf |-> inf, house |-> house, sal |-> sal, shock |-> shock,
   rates |-> rates]

\* the month's own factor, as spend indexed without np.cumprod
MonthInflation(path, month) == 1 + path[month].inf

\* run, lines 72-73: cumulative_inflation_arr[month] of a path
RECURSIVE cumulative_inflation(_, _)
cumulative_inflation(path, month) ==
  IF month < 0 THEN 1
  ELSE (1 + path[month].inf) * cumulative_inflation(path, month - 1)

\* run, lines 85-89: the incomes after the month's salary growth
GrowIncomes(incomes, sal) == [i \in DOMAIN incomes |-> incomes[i] * (1 + sal)]

\* run, line 109: maintenance of the owned properties
MaintenanceCosts(assets) ==
  SumSeq([i \in DOMAIN assets |->
            IF assets[i].kind = "RealProperty"
            THEN get_maintenance_cost(assets[i]) ELSE 0])

\* run, line 115: what one liability adds to debt_service
DebtCharge(liab) == liab.payment

\* run, lines 112-115: debt_service
DebtService(liabilities) ==
  SumSeq([i \in DOMAIN liabilities |-> DebtCharge(liabilities[i])])

\* run, lines 113-114: the liabilities after liab.step(variable_rate_adjuster=0)
StepLiabilities(liabilities) ==
  [i \in DOMAIN liabilities |-> LiabilityStep(liabilities[i], 0).liab]

\* run, line 114: the interest the steps return, summed
InterestOf(liabilities) ==
  SumSeq([i \in DOMAIN liabilities |-> LiabilityStep(liabilities[i], 0).interest])

\* run, line 125: monthly_income * (1 - tax_rate), tax_rate in percent
AfterTax(monthly_income, tax_rate) == (monthly_income * (100 - tax_rate)) \div 100

\* run, lines 128-133: asset growth
GrowAssets(assets, f) ==
  [i \in DOMAIN assets |->
     IF assets[i].kind = "RealProperty" THEN PropertyGrow(assets[i], f.house)
     ELSE AssetGrow(assets[i], f.mkt, f.rates)]

\* cash management that fails the path on any deficit the policy left
CashManagementAnyDeficit(pf, net_cash) ==
  LET credited == [pf EXCEPT !.assets[1].value = @ + net_cash]
  IN  IF net_cash >= 0 \/ credited.assets[1].value >= 0
      THEN [portfolio |-> credited, failed |-> FALSE, deficit |-> 0,
            remaining |-> 0]
      ELSE LET deficit == Abs(credited.assets[1].value)
               zeroed == [credited EXCEPT !.assets[1].value = 0]
               sol == standard_solvency(zeroed, deficit)
           IN  [portfolio |-> sol.portfolio,
                failed |-> sol.remaining > 0,
                deficit |-> deficit, remaining |-> sol.remaining]

\* run, lines 136-150: cash management.  The portfolio afterwards, whether the
\* path failed, and the deficit the solvency policy left
CashManagement(pf, net_cash) ==
  LET credited == [pf EXCEPT !.assets[1].value = @ + net_cash]
  IN  IF net_cash >= 0 \/ credited.assets[1].value >= 0
      THEN [portfolio |-> credited, failed |-> FALSE, deficit |-> 0,
            remaining |-> 0]
      ELSE LET deficit == Abs(credited.assets[1].value)
               zeroed == [credited EXCEPT !.assets[1].value = 0]
               sol == standard_solvency(zeroed, deficit)
           IN  [portfolio |-> sol.portfolio,
                failed |-> sol.remaining > FAILURE_TOLERANCE,
                deficit |-> deficit, remaining |-> sol.remaining]

\* the record without the failed branch
RecordedNetWorth(pf, is_failed) == net_worth(pf)

\* run, lines 153-156: the net worth recorded for the month
Recorded(pf, is_failed) == IF is_failed THEN 0 ELSE net_worth(pf)

\* cash and liquid assets together
LiquidTotal(pf) ==
  pf.assets[1].value +
  SumSeq([i \in DOMAIN pf.assets |->
            IF i > 1 /\ IsLiquid(pf.assets[i]) THEN pf.assets[i].value ELSE 0])

\* run, lines 84-156: one month of a path that has not failed.  pf is the
\* path's portfolio, rent its current_rent_base, cfg the shared config, path
\* the path's scenario, month the loop index.
MonthStep(pf, rent, cfg, schedule, path, month) ==
  LET f == path[month]
      cuminf == cumulative_inflation(path, month)
      incomes == GrowIncomes(pf.incomes, f.sal)
      monthly_income == SumSeq(incomes)
      due == ScheduledAt(schedule, month)
      ev == ApplyEvents([pf EXCEPT !.incomes = incomes], cfg.monthly_spend,
                        due, rent)
      current_monthly_spend == ev.monthly_spend * cuminf
      current_rent_payment == IF ev.rent > 0 THEN ev.rent * cuminf ELSE 0
      maint_costs == MaintenanceCosts(ev.portfolio.assets)
      before == ev.portfolio.liabilities
      debt_service == DebtService(before)
      serviced == [ev.portfolio EXCEPT !.liabilities = StepLiabilities(before)]
      total_outflow == current_monthly_spend + current_rent_payment
                       + maint_costs + debt_service
                       + (IF f.shock = 1 THEN SHOCK_SIZE * cuminf ELSE 0)
      net_cash == AfterTax(monthly_income, cfg.tax_rate) - total_outflow
      grown == [serviced EXCEPT !.assets = GrowAssets(serviced.assets, f)]
      cm == CashManagement(grown, net_cash)
  IN  [portfolio |-> cm.portfolio,
       rent |-> ev.rent,
       monthly_spend |-> ev.monthly_spend,
       failed |-> cm.failed,
       net_worth |-> Recorded(cm.portfolio, cm.failed),
       locals |->
         [month |-> month,
          applied |-> due,
          monthly_income |-> monthly_income,
          spend_base |-> ev.monthly_spend,
          current_monthly_spend |-> current_monthly_spend,
          current_rent_payment |-> current_rent_payment,
          maint_costs |-> maint_costs,
          charged |-> [i \in DOMAIN before |-> DebtCharge(before[i])],
          owed |-> [i \in DOMAIN before |->
                      before[i].value + LiabilityStep(before[i], 0).interest],
          debt_service |-> debt_service,
          interest |-> InterestOf(before),
          interest_paid |-> InterestOf(before),
          uncovered |-> cm.remaining,
          applied_log |-> [i \in DOMAIN due |-> [month |-> month, event |-> due[i]]],
          net_cash |-> net_cash,
          cash_in |-> ev.portfolio.assets[1].value,
          liquid_grown |-> LiquidTotal(grown),
          deficit |-> cm.deficit,
          remaining_deficit |-> cm.remaining]]

\* locals before the first month of a path
NoLocals ==
  [month |-> -1, applied |-> <<>>, monthly_income |-> 0, spend_base |-> 0,
   current_monthly_spend |-> 0, current_rent_payment |-> 0, maint_costs |-> 0,
   charged |-> <<>>, owed |-> <<>>, debt_service |-> 0, interest |-> 0,
   interest_paid |-> 0, uncovered |-> 0, applied_log |-> <<>>, net_cash |-> 0, cash_in |-> 0, liquid_grown |-> 0, deficit |-> 0,
   remaining_deficit |-> 0]

\* the month's locals, with the path's earlier months added: the interest the
\* steps returned, the deficits left uncovered, the events applied
Accumulate(prev, now) ==
  [now EXCEPT !.interest_paid = prev.interest_paid + now.interest,
              !.uncovered = prev.uncovered + now.remaining_deficit,
              !.applied_log = prev.applied_log \o now.applied_log]

----------------------------------------------------------------------------
(* The inputs: portfolios, configurations and scenarios *)

Portfolio(assets, liabilities, incomes) ==
  [assets |-> assets, liabilities |-> liabilities, incomes |-> incomes]

\* test_suite.py setUp: cash only, no income
PortCash == Portfolio(<<Asset("Cash", 10000, 0)>>, <<>>, <<0>>)

\* test_suite.py test_liquidity_crisis
PortCrisis ==
  Portfolio(<<Asset("Cash", 0, 0), Asset("Stock", 2000, 1),
              RealProperty("House", 5000, 0)>>, <<>>, <<0>>)

\* a loan that is paid off in the second month
PortDebt ==
  Portfolio(<<Asset("Cash", 3000, 0)>>,
            <<Liability("Loan", 1000, 0, 600, FALSE)>>, <<2000>>)

\* app.py lines 177-187: cash, investments, a home and its mortgage
PortMixed ==
  Portfolio(<<Asset("Cash", 50, 0), Asset("Stock", 500, 1),
              Asset("Bond", 1000, 1), RealProperty("Home", 2400, 1)>>,
            <<Liability("Mortgage", 2400, 1, 2500, TRUE)>>, <<2000, 1000>>)

\* cash that falls short of the first month's spend by less than the tolerance
PortShort == Portfolio(<<Asset("Cash", 950, 0)>>, <<>>, <<0>>)

Portfolios == {PortCash, PortCrisis, PortDebt, PortMixed, PortShort}

NoEvents == <<>>

\* test_suite.py test_spend_increase_event
SpendIncrease == <<ParamChangeEvent(1, "monthly_spend", 2000)>>

\* test_suite.py test_rent_stops_after_purchase, with a down payment and a loan
BuyHome == <<PurchaseEvent(1, "Home", 2400, 1200, 0, 100, TRUE, TRUE)>>

\* a purchase paid in full, for more than the cash of any portfolio
BuyBoat == <<PurchaseEvent(0, "Boat", 12000, 12000, 0, 0, FALSE, FALSE)>>

\* two events of one month
TwoChanges == <<ParamChangeEvent(1, "monthly_spend", 2000),
                ParamChangeEvent(1, "monthly_spend", 500)>>

\* an event past the horizon, a parameter run does not know, a purchase with
\* no down payment and nothing financed, and a change in the same month
Oddities == <<ParamChangeEvent(12, "monthly_spend", 0),
              ParamChangeEvent(0, "initial_rent", 0),
              PurchaseEvent(1, "Gift", 0, 0, 0, 0, FALSE, FALSE),
              ParamChangeEvent(1, "monthly_spend", 1500)>>

EventLists == {NoEvents, SpendIncrease, BuyHome, BuyBoat, TwoChanges, Oddities}

Config(monthly_spend, initial_rent, tax_rate, events) ==
  [monthly_spend |-> monthly_spend, initial_rent |-> initial_rent,
   tax_rate |-> tax_rate, events |-> events]

Configs ==
  {Config(1000, 0, 0, e) : e \in EventLists}
  \cup {Config(1000, 500, 50, e) : e \in {NoEvents, BuyHome}}

\* test_suite.py _force_scenarios: every factor flat at zero
Flat == [m \in MonthIdx |-> Factors(0, 0, 0, 0, 0, 0)]

\* a bad second month: an unforeseen expense, and the market loses everything
BadMonthPath ==
  [m \in MonthIdx |-> Factors(IF m = 1 THEN -1 ELSE 0, 0, 0, 0,
                              IF m = 1 THEN 1 ELSE 0, 0)]

\* constant inflation
InflationPath == [m \in MonthIdx |-> Factors(0, 1, 0, 0, 0, 0)]

\* rising markets, house prices, salaries and interest rates, and inflation
\* in every second month
GrowthPath == [m \in MonthIdx |-> Factors(1, m % 2, 1, 1, 0, 1)]

ScenarioPaths == {Flat, BadMonthPath, InflationPath, GrowthPath}

----------------------------------------------------------------------------
(* The second engine: financial_state.py, policies.py, simulator.py.        *)
(* Money is a whole number of dollars; a market factor is the code's        *)
(* factor * dt in whole percent per step, so x * (1 + r * dt) is            *)
(* x + (x * r) \div 100; salaries are the code's annual amounts.            *)

\* market_engine.py: MarketEngine(years, steps_per_year=12)
STEPS_PER_YEAR == 12

\* the interest_rate of a Liability that floats with the market (None)
None == -1

\* Python's truth value of an interest_rate: None and 0 are false
Truthy(x) == x # None /\ x # 0

\* x * (1 + r * dt), r * dt in percent
Scaled(x, pct) == x + (x * pct) \div 100

\* financial_state.py: Liability(name, balance, interest_rate, monthly_payment)
StateLiability(name, balance, interest_rate, monthly_payment) ==
  [name |-> name, balance |-> balance, interest_rate |-> interest_rate,
   monthly_payment |-> monthly_payment]

\* financial_state.py: Asset(name, value, is_liquid, growth_beta)
StateAsset(name, value, is_liquid, growth_beta) ==
  [name |-> name, value |-> value, is_liquid |-> is_liquid,
   growth_beta |-> growth_beta]

\* financial_state.py: RealEstate(name, value, is_liquid, mortgage=...).
\* mortgage is the position in state.liabilities of the Liability object the
\* property refers to, 0 for None
RealEstate(name, value, mortgage) ==
  [name |-> name, value |-> value, is_liquid |-> FALSE, mortgage |-> mortgage]

\* FinancialState(cash, investments, salaries, liabilities, essential_spend,
\* real_estate)
FinancialState(cash, investments, salaries, liabilities, essential_spend, real_estate) ==
  [cash |-> cash, investments |-> investments, salaries |-> salaries,
   liabilities |-> liabilities, essential_spend |-> essential_spend,
   real_estate |-> real_estate, failed |-> FALSE]

\* RealEstate.equity
equity(st, h) ==
  h.value - (IF h.mortgage # 0 THEN st.liabilities[h.mortgage].balance ELSE 0)

\* FinancialState.net_worth, line 42: the liabilities that are not `in` the
\* list of the properties' mortgages (dataclass equality: equal fields)
NonMortgageDebts(st) ==
  SumSeq([i \in DOMAIN st.liabilities |->
            IF \E j \in DOMAIN st.real_estate :
                 /\ st.real_estate[j].mortgage # 0
                 /\ st.liabilities[st.real_estate[j].mortgage]
                      = st.liabilities[i]
            THEN 0 ELSE st.liabilities[i].balance])

\* FinancialState.net_worth
state_net_worth(st) ==
  st.cash
  + SumSeq([i \in DOMAIN st.investments |-> st.investments[i].value])
  + SumSeq([j \in DOMAIN st.real_estate |->
              equity(st, st.real_estate[j])])
  - NonMortgageDebts(st)

\* FinancialState.snapshot, with the step and year run_single_simulation adds
snapshot(st, step) ==
  [NetWorth |-> state_net_worth(st),
   Cash |-> st.cash,
   Investments |-> SumSeq([i \in DOMAIN st.investments |->
                             st.investments[i].value]),
   Debt |-> SumSeq([i \in DOMAIN st.liabilities |->
                      st.liabilities[i].balance]),
   step |-> step, year |-> step \div STEPS_PER_YEAR]

\* A step of the market paths: every factor times dt, in percent
MarketData(inflation, mkt_return, salary_growth, housing_growth, interest_rate, unforeseen_expense) ==
  [inflation |-> inflation, mkt_return |-> mkt_return,
   salary_growth |-> salary_growth, housing_growth |-> housing_growth,
   interest_rate |-> interest_rate, unforeseen_expense |-> unforeseen_expense]

\* step, line 41: debt.interest_rate or market_data['interest_rate']
AccrualRate(debt, market_rate) ==
  IF Truthy(debt.interest_rate) THEN debt.interest_rate ELSE market_rate

\* the debt service without the clamp of line 43
ServiceDebtUnclamped(debt, market_rate) ==
  LET interest == (debt.balance * AccrualRate(debt, market_rate)) \div 100
      balance == debt.balance + interest - debt.monthly_payment
  IN  [debt |-> [debt EXCEPT !.balance = IF balance < 0 THEN 0 ELSE balance],
       interest |-> interest, payment |-> debt.monthly_payment]

\* step, lines 41-46: the body of the debt loop for one liability: the
\* liability afterwards, the interest accrued and the payment taken from cash
ServiceDebt(debt, market_rate) ==
  LET interest == (debt.balance * AccrualRate(debt, market_rate)) \div 100
      payment == IF debt.monthly_payment > debt.balance + interest
                 THEN debt.balance + interest ELSE debt.monthly_payment
      balance == debt.balance + interest - payment
  IN  [debt |-> [debt EXCEPT !.balance = IF balance < 0 THEN 0 ELSE balance],
       interest |-> interest, payment |-> payment]

\* step, line 33: monthly_income
MonthlyIncome(salaries, salary_growth) ==
  Scaled(SumSeq([i \in DOMAIN salaries |-> salaries[i] \div 12]), salary_growth)

\* simulator.Simulator.step(state, market_data, current_year)
step(st, market_data) ==
  LET essential_spend == Scaled(st.essential_spend, market_data.inflation)
      serviced == [i \in DOMAIN st.liabilities |->
                     ServiceDebt(st.liabilities[i], market_data.interest_rate)]
  IN  [st EXCEPT
         !.salaries = [i \in DOMAIN @ |-> Scaled(@[i], market_data.salary_growth)],
         !.essential_spend = essential_spend,
         !.cash = @ + MonthlyIncome(st.salaries, market_data.salary_growth)
                    - essential_spend - market_data.unforeseen_expense
                    - SumSeq([i \in DOMAIN serviced |-> serviced[i].payment]),
         !.liabilities = [i \in DOMAIN @ |-> serviced[i].debt],
         !.investments = [i \in DOMAIN @ |->
                            [@[i] EXCEPT !.value =
                               Scaled(@, market_data.mkt_return * st.investments[i].growth_beta)]],
         !.real_estate = [i \in DOMAIN @ |->
                            [@[i] EXCEPT !.value =
                               Scaled(@, market_data.housing_growth)]]]

\* manage_liquidity, line 9
monthly_burn(st) ==
  st.essential_spend
  + SumSeq([i \in DOMAIN st.liabilities |-> st.liabilities[i].monthly_payment])

\* manage_liquidity selling only what brings cash back to zero
manage_liquidityToZero(st) ==
  LET min_cash == 3 * monthly_burn(st)
      max_cash == 6 * monthly_burn(st)
      inv == st.investments
      total_liquid == SumSeq([i \in DOMAIN inv |->
                                IF inv[i].is_liquid THEN inv[i].value ELSE 0])
  IN  IF st.cash < 0 THEN
        LET deficit == 0 - st.cash
            amount_to_sell ==
              [i \in DOMAIN inv |->
                 IF inv[i].is_liquid /\ total_liquid > 0
                 THEN Min(inv[i].value, (deficit * inv[i].value) \div total_liquid)
                 ELSE 0]
        IN  [st EXCEPT
               !.investments = [i \in DOMAIN inv |->
                                  [inv[i] EXCEPT !.value = @ - amount_to_sell[i]]],
               !.cash = @ + SumSeq(amount_to_sell)]
      ELSE IF st.cash > max_cash /\ inv # <<>> THEN
        LET surplus == st.cash - max_cash
        IN  [st EXCEPT !.investments[1].value = @ + surplus,
                          !.cash = @ - surplus]
      ELSE st

\* manage_liquidity without the min of line 21
manage_liquidityUnclamped(st) ==
  LET min_cash == 3 * monthly_burn(st)
      max_cash == 6 * monthly_burn(st)
      inv == st.investments
      total_liquid == SumSeq([i \in DOMAIN inv |->
                                IF inv[i].is_liquid THEN inv[i].value ELSE 0])
  IN  IF st.cash < min_cash THEN
        LET deficit == min_cash - st.cash
            amount_to_sell ==
              [i \in DOMAIN inv |->
                 IF inv[i].is_liquid /\ total_liquid > 0
                 THEN (deficit * inv[i].value) \div total_liquid
                 ELSE 0]
        IN  [st EXCEPT
               !.investments = [i \in DOMAIN inv |->
                                  [inv[i] EXCEPT !.value = @ - amount_to_sell[i]]],
               !.cash = @ + SumSeq(amount_to_sell)]
      ELSE IF st.cash > max_cash /\ inv # <<>> THEN
        LET surplus == st.cash - max_cash
        IN  [st EXCEPT !.investments[1].value = @ + surplus,
                          !.cash = @ - surplus]
      ELSE st

\* PolicyEngine.manage_liquidity(state)
manage_liquidity(st) ==
  LET min_cash == 3 * monthly_burn(st)
      max_cash == 6 * monthly_burn(st)
      inv == st.investments
      total_liquid == SumSeq([i \in DOMAIN inv |->
                                IF inv[i].is_liquid THEN inv[i].value ELSE 0])
  IN  IF st.cash < min_cash THEN
        LET deficit == min_cash - st.cash
            amount_to_sell ==
              [i \in DOMAIN inv |->
                 IF inv[i].is_liquid /\ total_liquid > 0
                 THEN Min(inv[i].value, (deficit * inv[i].value) \div total_liquid)
                 ELSE 0]
        IN  [st EXCEPT
               !.investments = [i \in DOMAIN inv |->
                                  [inv[i] EXCEPT !.value = @ - amount_to_sell[i]]],
               !.cash = @ + SumSeq(amount_to_sell)]
      ELSE IF st.cash > max_cash /\ inv # <<>> THEN
        LET surplus == st.cash - max_cash
        IN  [st EXCEPT !.investments[1].value = @ + surplus,
                          !.cash = @ - surplus]
      ELSE st

\* PolicyEngine.check_failure(state)
check_failure(st) ==
  IF st.cash < 0 THEN [st EXCEPT !.failed = TRUE] ELSE st

\* simulator.py: ScheduledEvent(year, action, description); the action is one
\* of the callables the tests and demo.py pass: buy_boat (cash -= amount) and
\* buy_vacation_home (cash -= amount, a RealEstate of that value appended)
ScheduledEvent(year, action, amount) ==
  [year |-> year, action |-> action, amount |-> amount]

\* event.action(state)
action(st, event) ==
  IF event.action = "buy_boat"
  THEN [st EXCEPT !.cash = @ - event.amount]
  ELSE [st EXCEPT
          !.cash = @ - event.amount,
          !.real_estate = Append(@, RealEstate("Vacation Home", event.amount, 0))]

\* the test of lines 70-74 with the month left out
EventDueAllYear(event, step_t) == event.year = step_t \div 12

\* run_single_simulation, lines 70-74: is the event executed at step t
EventDue(event, step_t) == step_t % 12 = 0 /\ event.year = step_t \div 12

\* run_single_simulation, lines 72-76: the events of step t, in list order
RECURSIVE RunEvents(_, _, _)
RunEvents(st, events, step_t) ==
  IF events = <<>> THEN st
  ELSE RunEvents(IF EventDue(Head(events), step_t)
                 THEN action(st, Head(events)) ELSE st,
                 Tail(events), step_t)

\* run_single_simulation, lines 67-88: one iteration of the loop
SimulationStep(st, events, market_data, step_t) ==
  check_failure(manage_liquidity(step(RunEvents(st, events, step_t), market_data)))

\* The inputs of the second engine

EngineYears == 2

\* MarketEngine.steps
Steps == EngineYears * STEPS_PER_YEAR

StepIdx == 0 .. (Steps - 1)

NoMarket == MarketData(0, 0, 0, 0, 0, 0)

\* test_simulator.py MockMarketEngine: every factor zero at every step
MarketZero == [s \in StepIdx |-> NoMarket]

\* the market's interest rate at 1 % a step, every other factor zero
MarketRates == [s \in StepIdx |-> MarketData(0, 0, 0, 0, 1, 0)]

\* factors that move in single steps, and an unforeseen expense
MarketMixed ==
  [s \in StepIdx |->
     MarketData(IF s = 5 THEN 1 ELSE 0, IF s = 7 THEN -10 ELSE 0,
                IF s = 12 THEN 10 ELSE 0, IF s = 3 THEN 2 ELSE 0,
                IF s % 6 = 1 THEN 1 ELSE 0, IF s = 13 THEN 500 ELSE 0)]

MarketScenarios == {MarketZero, MarketRates, MarketMixed}

\* test_simulator.py setUp, every amount divided by ten: a home with its
\* mortgage at a fixed rate of 0
TestState ==
  FinancialState(1000, <<StateAsset("Stocks", 5000, TRUE, 1)>>, <<6000>>,
                 <<StateLiability("Mortgage", 20000, 0, 100)>>, 300,
                 <<RealEstate("Home", 30000, 1)>>)

\* a fixed-rate loan that is paid off within the year, a floating credit
\* line, an illiquid first investment and two salaries
DebtState ==
  FinancialState(2000,
                 <<StateAsset("Fund", 1000, FALSE, 1),
                   StateAsset("Stocks", 3000, TRUE, 1)>>,
                 <<6000, 2400>>,
                 <<StateLiability("Car", 1250, 1, 200),
                   StateLiability("Line", 1000, None, 50)>>, 300, <<>>)

\* a home whose mortgage is paid off in the third month, and a second loan
SmallMortgage ==
  FinancialState(500, <<StateAsset("Stocks", 2000, TRUE, 1)>>, <<6000>>,
                 <<StateLiability("Mortgage", 250, 0, 100),
                   StateLiability("Loan", 2000, 0, 50)>>, 300,
                 <<RealEstate("Home", 3000, 1)>>)

\* more spend than income and nothing to sell: cash is gone in the fourth month
PoorState == FinancialState(500, <<>>, <<1200>>, <<>>, 250, <<>>)

States == {TestState, DebtState, SmallMortgage, PoorState}

\* test_05_scheduled_event: buy a boat in year 1
BoatYearOne == <<ScheduledEvent(1, "buy_boat", 5000)>>

\* demo.py's vacation home at the start, a small boat in year 1
HomeThenBoat ==
  <<ScheduledEvent(0, "buy_vacation_home", 800),
    ScheduledEvent(1, "buy_boat", 100)>>

\* two events of one year, and one of a year past the horizon
SameYear ==
  <<ScheduledEvent(1, "buy_boat", 100), ScheduledEvent(EngineYears + 3, "buy_boat", 100),
    ScheduledEvent(1, "buy_vacation_home", 200)>>

ScheduledEventLists == {<<>>, BoatYearOne, HomeThenBoat, SameYear}

\* the second engine before a Simulator is built
EngineIdle ==
  /\ initial_state = PoorState
  /\ scheduled_events = <<>>
  /\ market_paths = <<>>
  /\ state = PoorState
  /\ history = <<>>
  /\ executed = <<>>

\* a Simulator of Months months and NumPaths paths, built without an error
ConfigIdle ==
  /\ requested = [months |-> Months, paths |-> NumPaths]
  /\ error = "none"

\* backward_goal_seek before its loop: lines 32-35
SeekLocals(original_spend) ==
  [low_spend |-> 0, high_spend |-> original_spend * 2, best_spend |-> None,
   iteration |-> 0]

NoReport == [outcome |-> "", best_spend |-> None]

\* no optimize_for_goals yet
NoOptimizer ==
  [goals |-> <<>>, unlucky |-> 0, evaluations |-> 0, x |-> 0,
   temp_state |-> PoorState, sim |-> 0, successes |-> <<>>, fun |-> 0,
   res |-> [x |-> 0, fun |-> 0, successes |-> <<>>], outcome |-> ""]

\* no test_sim yet
NoTestSim ==
  [mid_spend |-> 0, monthly_spend |-> 0, q |-> 0, month |-> 0,
   portfolio |-> <<>>, rent |-> 0, failed |-> FALSE, last |-> 0,
   finals |-> <<>>]

\* no search asked for
SeekIdle ==
  /\ goal = [target_nw |-> 0, target_probability |-> 0, next_probability |-> 0]
  /\ seek = SeekLocals(0)
  /\ test_sim = NoTestSim
  /\ report = NoReport
  /\ first_seek = NoReport
  /\ optimizer = NoOptimizer

----------------------------------------------------------------------------
(* simulation_core.py: Simulator.__init__ and Simulator.run *)

\* the binding port = self.initial_portfolio, with no copy made
SameObject(obj) == obj

\* copy.deepcopy(obj): the object the result names, a new one that shares
\* nothing with obj
deepcopy(obj) == "copy"

\* __init__, lines 44-47
EmptyResults ==
  [net_worth |-> [m \in MonthIdx |-> [q \in Paths |-> 0]],
   liquidity_failure |-> [q \in Paths |-> 0]]

NoSolvency == [portfolio |-> PortCash, amount |-> 0]

\* Simulator(initial_portfolio, config): config is kept by reference, the
\* scenarios are generated, the results are zeroed
Init ==
  /\ initial_portfolio \in Portfolios
  /\ config \in Configs
  /\ caller_config = config
  /\ scenarios \in [Paths -> ScenarioPaths]
  /\ results = EmptyResults
  /\ first_results = EmptyResults
  /\ event_schedule = <<>>
  /\ pc = "constructed"
  /\ run_no = 1
  /\ p = 0
  /\ t = 0
  /\ port = initial_portfolio
  /\ port_ref = "unbound"
  /\ failed = FALSE
  /\ current_rent_base = 0
  /\ locals = NoLocals
  /\ sol_in = NoSolvency
  /\ sol_out = NoSolvency
  /\ EngineIdle
  /\ ConfigIdle
  /\ SeekIdle

\* run, lines 50-54: the schedule is built once per run
RunBegin ==
  /\ pc = "constructed"
  /\ event_schedule' = map_events(config.events, Months)
  /\ p' = 0
  /\ pc' = "path"
  /\ UNCHANGED <<initial_portfolio, config, caller_config, scenarios, results,
                 first_results, run_no, t, port, failed, current_rent_base,
                 locals, sol_in, sol_out, port_ref,
                 engineVars, configVars, seekVars>>

\* run, lines 56-77: a path starts on a deep copy of the portfolio, an object
\* of its own
PathBegin ==
  /\ pc = "path"
  /\ p < NumPaths
  /\ port' = initial_portfolio
  /\ port_ref' = deepcopy("initial")
  /\ failed' = FALSE
  /\ current_rent_base' = config.initial_rent
  /\ t' = 0
  /\ locals' = NoLocals
  /\ pc' = "month"
  /\ UNCHANGED <<initial_portfolio, config, caller_config, scenarios, results,
                 first_results, event_schedule, run_no, p, sol_in, sol_out,
                 engineVars, configVars, seekVars>>

\* run, lines 80-82: a month of a path that has failed
FailedMonth ==
  /\ pc = "month"
  /\ t < Months
  /\ failed
  /\ results' = [results EXCEPT !.net_worth[t][p] = 0]
  /\ t' = t + 1
  /\ UNCHANGED <<initial_portfolio, config, caller_config, scenarios,
                 first_results, event_schedule, pc, run_no, p, port, failed,
                 current_rent_base, locals, sol_in, sol_out, port_ref,
                 engineVars, configVars, seekVars>>

\* run, lines 84-156: a month of a path that has not failed.  The month's
\* writes go to the object port names
RunMonth ==
  /\ pc = "month"
  /\ t < Months
  /\ ~failed
  /\ LET r == MonthStep(port, current_rent_base, config, event_schedule,
                        scenarios[p], t)
     IN  /\ port' = r.portfolio
         /\ current_rent_base' = r.rent
         /\ config' = [config EXCEPT !.monthly_spend = r.monthly_spend]
         /\ failed' = r.failed
         /\ results' = [results EXCEPT
                          !.net_worth[t][p] = r.net_worth,
                          !.liquidity_failure[p] = IF r.failed THEN 1 ELSE @]
         /\ initial_portfolio' = IF port_ref = "initial" THEN r.portfolio
                                 ELSE initial_portfolio
         /\ locals' = Accumulate(locals, r.locals)
  /\ t' = t + 1
  /\ UNCHANGED <<caller_config, scenarios, first_results, event_schedule, pc,
                 run_no, p, port_ref, sol_in, sol_out,
                 engineVars, configVars, seekVars>>

\* run, line 79: the month loop of a path ends
PathEnd ==
  /\ pc = "month"
  /\ t = Months
  /\ p' = p + 1
  /\ pc' = "path"
  /\ UNCHANGED <<initial_portfolio, config, caller_config, scenarios, results,
                 first_results, event_schedule, run_no, t, port, failed,
                 current_rent_base, locals, sol_in, sol_out, port_ref,
                 engineVars, configVars, seekVars>>

\* run, line 56: the path loop ends and run returns
RunReturn ==
  /\ pc = "path"
  /\ p = NumPaths
  /\ pc' = "returned"
  /\ UNCHANGED <<initial_portfolio, config, caller_config, scenarios, results,
                 first_results, event_schedule, run_no, p, t, port, failed,
                 current_rent_base, locals, sol_in, sol_out, port_ref,
                 engineVars, configVars, seekVars>>

\* the caller keeps the results and calls run() on the same Simulator again
RunAgain ==
  /\ pc = "returned"
  /\ run_no = 1
  /\ first_results' = results
  /\ run_no' = 2
  /\ pc' = "constructed"
  /\ UNCHANGED <<initial_portfolio, config, caller_config, scenarios, results,
                 event_schedule, p, t, port, failed, current_rent_base, locals,
                 sol_in, sol_out, port_ref,
                 engineVars, configVars, seekVars>>

\* the caller keeps the results and builds a Simulator from the same portfolio
\* and configuration object: the same seed gives the same scenarios, the
\* results are zeroed
Rebuild ==
  /\ pc = "returned"
  /\ run_no = 1
  /\ first_results' = results
  /\ results' = EmptyResults
  /\ run_no' = 2
  /\ pc' = "constructed"
  /\ UNCHANGED <<initial_portfolio, config, caller_config, scenarios,
                 event_schedule, p, t, port, failed, current_rent_base, locals,
                 sol_in, sol_out, port_ref,
                 engineVars, configVars, seekVars>>

Next ==
  \/ RunBegin
  \/ PathBegin
  \/ FailedMonth
  \/ RunMonth
  \/ PathEnd
  \/ RunReturn
  \/ RunAgain
  \/ Rebuild

Spec == Init /\ [][Next]_vars

----------------------------------------------------------------------------
(* Policies.standard_solvency on its own *)

MaxAssets == 3

AssetChoices ==
  {Asset("A", v, a) : v \in {0, 500, 1000}, a \in {0, 1}}
  \cup {RealProperty("R", v, 1) : v \in {0, 1200}}

AssetLists == UNION {[1 .. n -> AssetChoices] : n \in 1 .. MaxAssets}

Deficits == {50, 500, 1200, 4000}

InitPolicy ==
  /\ initial_portfolio = PortCash
  /\ config = Config(1000, 0, 0, NoEvents)
  /\ caller_config = config
  /\ scenarios = [q \in Paths |-> Flat]
  /\ results = EmptyResults
  /\ first_results = EmptyResults
  /\ event_schedule = <<>>
  /\ pc = "policy"
  /\ run_no = 1
  /\ p = 0
  /\ t = 0
  /\ port = initial_portfolio
  /\ port_ref = "unbound"
  /\ failed = FALSE
  /\ current_rent_base = 0
  /\ locals = NoLocals
  /\ \E assets \in AssetLists, d \in Deficits :
       sol_in = [portfolio |-> Portfolio(assets,
                                 <<Liability("Loan", 1000, 0, 600, FALSE)>>,
                                 <<2000>>),
                 amount |-> d]
  /\ sol_out = NoSolvency
  /\ EngineIdle
  /\ ConfigIdle
  /\ SeekIdle

\* remaining_deficit = Policies.standard_solvency(portfolio, cash_deficit)
Solve ==
  /\ pc = "policy"
  /\ LET r == standard_solvency(sol_in.portfolio, sol_in.amount)
     IN  sol_out' = [portfolio |-> r.portfolio, amount |-> r.remaining]
  /\ pc' = "policy_done"
  /\ UNCHANGED <<simVarsButPc, sol_in,
                 engineVars, configVars, seekVars>>

NextPolicy == Solve

SpecPolicy == InitPolicy /\ [][NextPolicy]_vars

----------------------------------------------------------------------------
(* simulator.py: Simulator.__init__ and Simulator.run_single_simulation *)

\* the variables of the first engine, but for pc and t
coreVarsButPcT ==
  <<initial_portfolio, config, caller_config, scenarios, results,
    first_results, event_schedule, run_no, p, port, port_ref, failed,
    current_rent_base, locals, sol_in, sol_out>>

\* the first engine with no Simulator of its own built
CoreIdle ==
  /\ initial_portfolio = PortCash
  /\ config = Config(1000, 0, 0, NoEvents)
  /\ caller_config = config
  /\ scenarios = [q \in Paths |-> Flat]
  /\ results = EmptyResults
  /\ first_results = EmptyResults
  /\ event_schedule = <<>>
  /\ run_no = 1
  /\ p = 0
  /\ port = initial_portfolio
  /\ port_ref = "unbound"
  /\ failed = FALSE
  /\ current_rent_base = 0
  /\ locals = NoLocals
  /\ sol_in = NoSolvency
  /\ sol_out = NoSolvency

\* Simulator(initial_state, years, scheduled_events), with the market's
\* scenario of the run to come
InitEngine ==
  /\ CoreIdle
  /\ ConfigIdle
  /\ SeekIdle
  /\ initial_state \in States
  /\ scheduled_events \in ScheduledEventLists
  /\ market_paths \in MarketScenarios
  /\ state = initial_state
  /\ history = <<>>
  /\ executed = <<>>
  /\ pc = "sim_constructed"
  /\ t = 0

\* run_single_simulation, lines 60-64
SimulationBegin ==
  /\ pc = "sim_constructed"
  /\ state' = initial_state
  /\ history' = <<>>
  /\ executed' = <<>>
  /\ t' = 0
  /\ pc' = "sim_loop"
  /\ UNCHANGED <<coreVarsButPcT, configVars, seekVars, initial_state, scheduled_events, market_paths>>

\* the events the loop executes at step t, as entries of the log
DueAt(events, step_t) ==
  LET due == SelectSeq([i \in DOMAIN events |-> [step |-> step_t, event |-> i]],
                       LAMBDA e : EventDue(events[e.event], step_t))
  IN  due

\* run_single_simulation, lines 66-88: an iteration of the loop
SimulationIteration ==
  /\ pc = "sim_loop"
  /\ t < Steps
  /\ ~state.failed
  /\ state' = SimulationStep(state, scheduled_events, market_paths[t], t)
  /\ history' = Append(history, snapshot(state', t))
  /\ executed' = executed \o DueAt(scheduled_events, t)
  /\ t' = t + 1
  /\ UNCHANGED <<coreVarsButPcT, configVars, seekVars, pc, initial_state, scheduled_events,
                 market_paths>>

\* run_single_simulation, lines 66-67 and 90: the loop ends or breaks
SimulationReturn ==
  /\ pc = "sim_loop"
  /\ (t = Steps \/ state.failed)
  /\ pc' = "sim_returned"
  /\ UNCHANGED <<coreVarsButPcT, configVars, seekVars, t, engineVars>>

NextEngine ==
  \/ SimulationBegin
  \/ SimulationIteration
  \/ SimulationReturn

SpecEngine == InitEngine /\ [][NextEngine]_vars

----------------------------------------------------------------------------
(* policies.py: PolicyEngine.manage_liquidity and check_failure applied     *)
(* once to a state, as run_single_simulation applies them after a step      *)

\* state.cash before the policies
PolicyCash == {-500, 0, 1000, 2500, 10000}

\* state.investments before the policies: none, one liquid account, an
\* illiquid account first, two liquid accounts (amounts whose pro-rata shares
\* of every deficit below are whole dollars), accounts too small for the
\* deficit, an illiquid account only, an empty liquid account
PolicyInvestments ==
  {<<>>,
   <<StateAsset("Stocks", 5000, TRUE, 1)>>,
   <<StateAsset("Fund", 1000, FALSE, 1), StateAsset("Stocks", 3000, TRUE, 1)>>,
   <<StateAsset("Stocks", 3000, TRUE, 1), StateAsset("Bonds", 1000, TRUE, 1)>>,
   <<StateAsset("Stocks", 300, TRUE, 1), StateAsset("Bonds", 100, TRUE, 1)>>,
   <<StateAsset("Fund", 1000, FALSE, 1)>>,
   <<StateAsset("Stocks", 0, TRUE, 1)>>}

PolicyLiabilities == {<<>>, <<StateLiability("Loan", 2000, 0, 100)>>}

PolicySpends == {300, 1000}

\* the states the policies are applied to; test_02_liquidity_crisis_policy's
\* cash of -5000 against stocks of 50000 and a spend of 10000 is among them,
\* divided by ten
PolicyStates ==
  {FinancialState(c, inv, <<6000>>, l, e, <<>>) :
     c \in PolicyCash, inv \in PolicyInvestments, l \in PolicyLiabilities,
     e \in PolicySpends}

\* a state as step has left it, before the policies
InitLiquidity ==
  /\ CoreIdle
  /\ ConfigIdle
  /\ SeekIdle
  /\ initial_state \in PolicyStates
  /\ scheduled_events = <<>>
  /\ market_paths = <<>>
  /\ state = initial_state
  /\ history = <<>>
  /\ executed = <<>>
  /\ pc = "policy_in"
  /\ t = 0

\* run_single_simulation, line 82: PolicyEngine.manage_liquidity(state)
ManageLiquidity ==
  /\ pc = "policy_in"
  /\ state' = manage_liquidity(state)
  /\ pc' = "managed"
  /\ UNCHANGED <<coreVarsButPcT, configVars, seekVars, t, initial_state,
                 scheduled_events, market_paths, history, executed>>

\* run_single_simulation, line 83: PolicyEngine.check_failure(state)
CheckFailure ==
  /\ pc = "managed"
  /\ state' = check_failure(state)
  /\ pc' = "checked"
  /\ UNCHANGED <<coreVarsButPcT, configVars, seekVars, t, initial_state,
                 scheduled_events, market_paths, history, executed>>

NextLiquidity ==
  \/ ManageLiquidity
  \/ CheckFailure

SpecLiquidity == InitLiquidity /\ [][NextLiquidity]_vars

----------------------------------------------------------------------------
(* financial_structs.py Liability.step and the debt loop of                 *)
(* simulator.Simulator.step, applied month after month to one liability of  *)
(* each engine: first the Liability of a Portfolio, then the Liability of a *)
(* FinancialState                                                           *)

\* the months each liability is stepped
DebtSteps == 4

\* principal / balance at the start
DebtBalances == {0, 100, 1000}

\* monthly_payment: none, less than the interest, more than the balance
DebtPayments == {0, 50, 600, 5000}

\* financial_structs.Liability.rate, as a whole number per month
DebtRates == {0, 1, 2}

\* financial_state.Liability.interest_rate, in percent per step; None floats
EngineRates == {None, 0, 1, 10}

\* a Portfolio and a FinancialState that hold one liability each
InitDebt ==
  /\ ConfigIdle
  /\ SeekIdle
  /\ \E b \in DebtBalances, pay \in DebtPayments, r1 \in DebtRates,
        r2 \in EngineRates :
       /\ initial_portfolio =
            Portfolio(<<Asset("Cash", 0, 0)>>,
                      <<Liability("Loan", b, r1, pay, FALSE)>>, <<0>>)
       /\ initial_state =
            FinancialState(0, <<>>, <<>>,
                           <<StateLiability("Loan", b, r2, pay)>>, 0, <<>>)
  /\ config = Config(1000, 0, 0, NoEvents)
  /\ caller_config = config
  /\ scenarios = [q \in Paths |-> Flat]
  /\ results = EmptyResults
  /\ first_results = EmptyResults
  /\ event_schedule = <<>>
  /\ run_no = 1
  /\ p = 0
  /\ port = initial_portfolio
  /\ port_ref = "unbound"
  /\ failed = FALSE
  /\ current_rent_base = 0
  /\ locals = NoLocals
  /\ sol_in = NoSolvency
  /\ sol_out = NoSolvency
  /\ scheduled_events = <<>>
  /\ market_paths \in {MarketZero, MarketRates}
  /\ state = initial_state
  /\ history = <<>>
  /\ executed = <<>>
  /\ pc = "liability_step"
  /\ t = 0

\* simulation_core.py run, lines 113-114: liab.step(variable_rate_adjuster=0)
\* for every liability of the portfolio
StepLiability ==
  /\ pc = "liability_step"
  /\ t < DebtSteps
  /\ port' = [port EXCEPT !.liabilities = StepLiabilities(port.liabilities)]
  /\ t' = t + 1
  /\ UNCHANGED <<initial_portfolio, config, caller_config, scenarios, results,
                 first_results, event_schedule, pc, run_no, p, port_ref,
                 failed, current_rent_base, locals, sol_in, sol_out,
                 engineVars, configVars, seekVars>>

\* the months of the first liability are over, the second one's begin
DebtNext ==
  /\ pc = "liability_step"
  /\ t = DebtSteps
  /\ pc' = "service_debt"
  /\ t' = 0
  /\ UNCHANGED <<coreVarsButPcT, engineVars, configVars, seekVars>>

\* simulator.py step, lines 40-46: the debt loop of a step
ServiceDebts ==
  /\ pc = "service_debt"
  /\ t < DebtSteps
  /\ LET serviced == [i \in DOMAIN state.liabilities |->
                        ServiceDebt(state.liabilities[i],
                                    market_paths[t].interest_rate)]
     IN  state' = [state EXCEPT
                     !.liabilities = [i \in DOMAIN serviced |-> serviced[i].debt],
                     !.cash = @ - SumSeq([i \in DOMAIN serviced |->
                                            serviced[i].payment])]
  /\ t' = t + 1
  /\ UNCHANGED <<coreVarsButPcT, configVars, seekVars, pc, initial_state,
                 scheduled_events, market_paths, history, executed>>

NextDebt ==
  \/ StepLiability
  \/ DebtNext
  \/ ServiceDebts

SpecDebt == InitDebt /\ [][NextDebt]_vars

----------------------------------------------------------------------------
(* analysis.py: Analyzer.optimize_for_goals.  A probability is in per mille, *)
(* the penalty in units of 0.0001, the lever x in whole dollars.  The        *)
(* minimizer is scipy's: all that is modelled of it is that it evaluates     *)
(* objective_function at levers inside the bounds, one after the other, and  *)
(* returns the lever with the least value it saw, and that value.            *)

\* objective_function, line 71: run_monte_carlo(n_sims=40)
N_SIMS == 40

\* optimize_for_goals, line 110: res.fun > 1.0, in units of 0.0001
SOLUTION_THRESHOLD == 10000

\* the evaluations the minimizer makes at most
MaxEvaluations == 2

\* a goal of the caller's list
Goal(metric, target, year, min_prob) ==
  [metric |-> metric, target |-> target, year |-> year, min_prob |-> min_prob]

\* objective_function, line 88: row.iloc[0][metric]
MetricOf(row, metric) ==
  CASE metric = "Net Worth" -> row.NetWorth
    [] metric = "Cash" -> row.Cash
    [] metric = "Investments" -> row.Investments
    [] metric = "Debt" -> row.Debt

\* objective_function, lines 85-90: does the path's history count as a
\* success for the goal: the first row of the goal's year, if there is one
GoalMet(hist, g) ==
  LET row == SelectSeq(hist, LAMBDA r : r.year = g.year)
  IN  row # <<>> /\ MetricOf(row[1], g.metric) >= g.target

\* objective_function, line 92: successes / len(results)
actual_prob(successes) == (successes * 1000) \div N_SIMS

\* objective_function, line 96
shortfall(required_prob, successes) ==
  Max(0, required_prob - actual_prob(successes))

\* objective_function, lines 73-102: the penalty of the lever spend_delta,
\* given the successes counted for every goal: shortfall * 100 for every goal
\* and abs(spend_delta) * 0.0001
objective_function(spend_delta, goals, successes) ==
  SumSeq([g \in DOMAIN goals |->
            shortfall(goals[g].min_prob, successes[g]) * 1000])
  + Abs(spend_delta)

\* a report that calls ten times the threshold a solution
OptimizeReportLoose(res) ==
  IF res.fun > 10 * SOLUTION_THRESHOLD THEN "warning" ELSE "solution"

\* optimize_for_goals, lines 110-118: what is printed for the result
OptimizeReport(res) ==
  IF res.fun > SOLUTION_THRESHOLD THEN "warning" ELSE "solution"

\* income 1000 a month, spend 900, one liquid account
GoalState ==
  FinancialState(1000, <<StateAsset("Stocks", 3000, TRUE, 1)>>, <<12000>>,
                 <<>>, 900, <<>>)

\* an unforeseen expense of 500 in the fourth month, every factor zero
MarketExpense ==
  [s \in StepIdx |-> MarketData(0, 0, 0, 0, 0, IF s = 3 THEN 500 ELSE 0)]

\* generate_scenario for the sim-th path of an evaluation: the first
\* `unlucky` paths of every evaluation meet the expense
GoalScenario(unlucky, sim) ==
  IF sim < unlucky THEN MarketExpense ELSE MarketZero

\* the numbers of paths that meet the expense
Unlucky == {0, 1, 4}

\* the caller's lists of goals: one goal; the two metrics of the docstring;
\* a goal of a year past the horizon
GoalLists ==
  {<<Goal("Net Worth", 5000, 1, 980)>>,
   <<Goal("Net Worth", 5000, 1, 900), Goal("Cash", 2500, 0, 950)>>,
   <<Goal("Net Worth", 5000, 1, 500), Goal("Cash", 0, EngineYears + 3, 500)>>}

\* the levers the minimizer tries, inside bounds=(-10000, 10000); with the
\* last one the path runs out of cash in its third month
Levers == {-200, 0, 1500}

\* Analyzer(base_simulator) and the goals the caller is about to pass
InitGoals ==
  /\ CoreIdle
  /\ ConfigIdle
  /\ goal = [target_nw |-> 0, target_probability |-> 0, next_probability |-> 0]
  /\ seek = SeekLocals(0)
  /\ test_sim = NoTestSim
  /\ report = NoReport
  /\ first_seek = NoReport
  /\ \E goals \in GoalLists, unlucky \in Unlucky :
       optimizer = [NoOptimizer EXCEPT !.goals = goals, !.unlucky = unlucky]
  /\ initial_state = GoalState
  /\ scheduled_events = <<>>
  /\ market_paths = MarketZero
  /\ state = initial_state
  /\ history = <<>>
  /\ executed = <<>>
  /\ pc = "goals"
  /\ t = 0

goalFrame ==
  <<coreVarsButPcT, configVars, goal, seek, test_sim, report, first_seek,
    initial_state, scheduled_events, executed>>

\* optimize_for_goals, line 106: minimize_scalar calls objective_function(x);
\* lines 63-70: the temporary state and its Simulator
ObjectiveBegin ==
  /\ pc \in {"goals", "minimize"}
  /\ optimizer.evaluations < MaxEvaluations
  /\ \E x \in Levers :
       optimizer' = [optimizer EXCEPT
                       !.x = x,
                       !.temp_state = [initial_state EXCEPT
                                         !.essential_spend = @ + x],
                       !.sim = 0,
                       !.successes = [g \in DOMAIN optimizer.goals |-> 0]]
  /\ pc' = "monte_carlo"
  /\ UNCHANGED <<goalFrame, t, state, history, market_paths>>

\* run_monte_carlo, line 97, and run_single_simulation, lines 60-64
ObjectiveSimBegin ==
  /\ pc = "monte_carlo"
  /\ optimizer.sim < N_SIMS
  /\ state' = optimizer.temp_state
  /\ market_paths' = GoalScenario(optimizer.unlucky, optimizer.sim)
  /\ history' = <<>>
  /\ t' = 0
  /\ pc' = "single_simulation"
  /\ UNCHANGED <<goalFrame, optimizer>>

\* run_single_simulation, lines 66-88: an iteration of the loop
ObjectiveSimIteration ==
  /\ pc = "single_simulation"
  /\ t < Steps
  /\ ~state.failed
  /\ state' = SimulationStep(state, <<>>, market_paths[t], t)
  /\ history' = Append(history, snapshot(state', t))
  /\ t' = t + 1
  /\ UNCHANGED <<goalFrame, optimizer, pc, market_paths>>

\* run_single_simulation, line 90; run_monte_carlo, line 99; and
\* objective_function, lines 81-90, for this path's history
ObjectiveSimEnd ==
  /\ pc = "single_simulation"
  /\ (t = Steps \/ state.failed)
  /\ optimizer' = [optimizer EXCEPT
                     !.sim = @ + 1,
                     !.successes = [g \in DOMAIN optimizer.goals |->
                                      IF GoalMet(history, optimizer.goals[g])
                                      THEN @[g] + 1 ELSE @[g]]]
  /\ pc' = "monte_carlo"
  /\ UNCHANGED <<goalFrame, t, state, history, market_paths>>

\* objective_function, lines 92-102: the penalty is returned, and the
\* minimizer keeps the least value it has seen
ObjectiveReturn ==
  /\ pc = "monte_carlo"
  /\ optimizer.sim = N_SIMS
  /\ LET fun == objective_function(optimizer.x, optimizer.goals,
                                   optimizer.successes)
         better == optimizer.evaluations = 0 \/ fun < optimizer.res.fun
     IN  optimizer' = [optimizer EXCEPT
                         !.fun = fun,
                         !.evaluations = @ + 1,
                         !.res = IF better
                                 THEN [x |-> optimizer.x, fun |-> fun,
                                       successes |-> optimizer.successes]
                                 ELSE @]
  /\ pc' = "minimize"
  /\ UNCHANGED <<goalFrame, t, state, history, market_paths>>

\* optimize_for_goals, lines 108-118: minimize_scalar has returned
OptimizeReturn ==
  /\ pc = "minimize"
  /\ optimizer.evaluations >= 1
  /\ optimizer' = [optimizer EXCEPT !.outcome = OptimizeReport(optimizer.res)]
  /\ pc' = "optimized"
  /\ UNCHANGED <<goalFrame, t, state, history, market_paths>>

NextGoals ==
  \/ ObjectiveBegin
  \/ ObjectiveSimBegin
  \/ ObjectiveSimIteration
  \/ ObjectiveSimEnd
  \/ ObjectiveReturn
  \/ OptimizeReturn

SpecGoals == InitGoals /\ [][NextGoals]_vars

----------------------------------------------------------------------------
(* simulation_core.py, market_physics.py: building a Simulator from a       *)
(* configuration whose horizon or path count may be zero or negative        *)

\* config['years'] * 12 as a caller may pass it: MarketEngine.months is
\* int(simulation_years * 12)
RequestedMonths == {-12, 0, Months}

\* config['num_paths'] as a caller may pass it
RequestedPaths == {-1, 0, NumPaths}

\* __init__, lines 44-47: np.zeros((months, paths)) and np.zeros(paths)
ZeroResults(months, paths) ==
  [net_worth |-> [m \in 0 .. (months - 1) |-> [q \in 0 .. (paths - 1) |-> 0]],
   liquidity_failure |-> [q \in 0 .. (paths - 1) |-> 0]]

\* the caller holds a portfolio and a configuration; no Simulator is built
InitConfig ==
  /\ initial_portfolio \in {PortCash, PortCrisis}
  /\ config = Config(1000, 0, 0, NoEvents)
  /\ caller_config = config
  /\ scenarios \in [Paths -> {Flat, BadMonthPath}]
  /\ results = EmptyResults
  /\ first_results = EmptyResults
  /\ event_schedule = <<>>
  /\ pc = "unbuilt"
  /\ run_no = 1
  /\ p = 0
  /\ t = 0
  /\ port = initial_portfolio
  /\ port_ref = "unbound"
  /\ failed = FALSE
  /\ current_rent_base = 0
  /\ locals = NoLocals
  /\ sol_in = NoSolvency
  /\ sol_out = NoSolvency
  /\ EngineIdle
  /\ requested \in [months : RequestedMonths, paths : RequestedPaths]
  /\ error = "none"
  /\ SeekIdle

\* Simulator(initial_portfolio, config): MarketEngine.__init__ checks
\* nothing; generate_scenarios asks numpy for arrays of (5, months, paths)
\* and of (months, paths), which raises ValueError for a negative dimension
\* and returns empty arrays for a zero one
Construct ==
  /\ pc = "unbuilt"
  /\ IF requested.months < 0 \/ requested.paths < 0
     THEN /\ error' = "ValueError"
          /\ pc' = "raised"
          /\ UNCHANGED results
     ELSE /\ results' = ZeroResults(requested.months, requested.paths)
          /\ pc' = IF requested.months > 0 /\ requested.paths > 0
                   THEN "constructed" ELSE "constructed_empty"
          /\ UNCHANGED error
  /\ UNCHANGED <<initial_portfolio, config, caller_config, scenarios,
                 first_results, event_schedule, run_no, p, t, port, port_ref,
                 failed, current_rent_base, locals, sol_in, sol_out,
                 engineVars, requested, seekVars>>

\* run() of a Simulator with no paths or no months: the path loop, or the
\* month loop of every path, has nothing to iterate over, and run returns
\* with the empty results
RunEmpty ==
  /\ pc = "constructed_empty"
  /\ pc' = "returned_empty"
  /\ UNCHANGED <<coreVarsButPcT, t, engineVars, configVars, seekVars>>

NextConfig ==
  \/ Construct
  \/ RunEmpty
  \/ Next

SpecConfig == InitConfig /\ [][NextConfig]_vars

----------------------------------------------------------------------------
(* analysis_engine.py: Analyzer.backward_goal_seek *)

\* range(10), line 37
BISECTION_ITERATIONS == 10

\* run, lines 79-156, as the search sees it: the months of one path from
\* month on; the net worth recorded for the last month, and
\* config['monthly_spend'] afterwards.  The portfolio's lists pass from a
\* month to the next item by item
RECURSIVE RunPath(_, _, _, _, _, _, _, _)
RunPath(pf, rent, cfg, schedule, path, month, is_failed, last) ==
  IF month >= Months
  THEN [last |-> last, monthly_spend |-> cfg.monthly_spend]
  ELSE IF is_failed
  THEN RunPath(pf, rent, cfg, schedule, path, month + 1, TRUE, 0)
  ELSE LET r == MonthStep(pf, rent, cfg, schedule, path, month)
           items(s) == SubSeq([i \in DOMAIN s |-> s[i]], 1, Len(s))
           next_pf == Portfolio(items(r.portfolio.assets),
                                items(r.portfolio.liabilities),
                                items(r.portfolio.incomes))
       IN  RunPath(next_pf, r.rent,
                   [cfg EXCEPT !.monthly_spend = r.monthly_spend],
                   schedule, path, month + 1, r.failed, r.net_worth)

\* run, lines 56-156: the paths from q on, each on a copy of the portfolio
\* and on the one config; the last row of results['net_worth'] as a sequence
RECURSIVE RunPaths(_, _, _, _, _, _)
RunPaths(pf, cfg, schedule, scen, q, finals) ==
  IF q >= NumPaths THEN finals
  ELSE LET r == RunPath(pf, cfg.initial_rent, cfg, schedule, scen[q], 0, FALSE, 0)
       IN  RunPaths(pf, [cfg EXCEPT !.monthly_spend = r.monthly_spend],
                    schedule, scen, q + 1, Append(finals, r.last))

\* backward_goal_seek, lines 45-48: final_nws of a Simulator built from the
\* portfolio and test_config and run once (the seed of test_config is the
\* seed of the config, so the scenarios are the same)
final_nws(pf, test_config, scen) ==
  RunPaths(pf, test_config, map_events(test_config.events, Months), scen, 0, <<>>)

\* the test of line 51 on the share of the paths that miss the target
MissesAtMost(finals, target_nw, target_probability) ==
  Cardinality({i \in DOMAIN finals : finals[i] < target_nw}) * 100
    <= target_probability * Len(finals)

\* backward_goal_seek, lines 49-51: prob_success >= target_probability, the
\* probability in percent
Succeeds(finals, target_nw, target_probability) ==
  Cardinality({i \in DOMAIN finals : finals[i] >= target_nw}) * 100
    >= target_probability * Len(finals)

\* backward_goal_seek, lines 51-55: the update of the bracket
BisectUpdate(sk, mid_spend, ok) ==
  IF ok
  THEN [sk EXCEPT !.best_spend = mid_spend, !.low_spend = mid_spend,
                  !.iteration = @ + 1]
  ELSE [sk EXCEPT !.high_spend = mid_spend, !.iteration = @ + 1]

\* a report that treats the search without a result as an error
ReportOrRaise(best_spend, original_spend) ==
  IF best_spend = None THEN [outcome |-> "ValueError", best_spend |-> None]
  ELSE [outcome |-> IF original_spend - best_spend > 0 THEN "reduce"
                    ELSE "increase",
        best_spend |-> best_spend]

\* backward_goal_seek, lines 57-64: what is printed
ReportOf(best_spend, original_spend) ==
  IF Truthy(best_spend)
  THEN [outcome |-> IF original_spend - best_spend > 0 THEN "reduce"
                    ELSE "increase",
        best_spend |-> best_spend]
  ELSE [outcome |-> "unreachable", best_spend |-> best_spend]

\* the portfolios, configurations and scenarios of the searches; the spends
\* halve exactly ten times
SeekPortfolios == {PortCash, PortDebt, PortCrisis}

SeekConfigs ==
  {Config(1024, 0, 0, NoEvents), Config(1024, 0, 0, BuyHome),
   Config(0, 0, 0, NoEvents)}

SeekScenarios ==
  {[q \in Paths |-> Flat],
   [q \in Paths |-> IF q = 0 THEN Flat ELSE InflationPath],
   [q \in Paths |-> IF q % 2 = 0 THEN BadMonthPath ELSE GrowthPath]}

Targets == {0, 7000, 9000, 100000}

Probabilities == {50, 90, 100}

\* Analyzer(simulator) of a Simulator just built, and the two searches the
\* caller is about to ask for, the second with the higher target_probability
InitSeek ==
  /\ initial_portfolio \in SeekPortfolios
  /\ config \in SeekConfigs
  /\ caller_config = config
  /\ scenarios \in SeekScenarios
  /\ results = EmptyResults
  /\ first_results = EmptyResults
  /\ event_schedule = <<>>
  /\ pc = "analyzer"
  /\ run_no = 1
  /\ p = 0
  /\ t = 0
  /\ port = initial_portfolio
  /\ port_ref = "unbound"
  /\ failed = FALSE
  /\ current_rent_base = 0
  /\ locals = NoLocals
  /\ sol_in = NoSolvency
  /\ sol_out = NoSolvency
  /\ EngineIdle
  /\ ConfigIdle
  /\ \E nw \in Targets, p1, p2 \in Probabilities :
       /\ p1 <= p2
       /\ goal = [target_nw |-> nw, target_probability |-> p1,
                  next_probability |-> p2]
  /\ seek = SeekLocals(0)
  /\ test_sim = NoTestSim
  /\ report = NoReport
  /\ first_seek = NoReport
  /\ optimizer = NoOptimizer

\* backward_goal_seek, lines 28-35
SeekBegin ==
  /\ pc = "analyzer"
  /\ seek' = SeekLocals(config.monthly_spend)
  /\ pc' = "seek_loop"
  /\ UNCHANGED <<coreVarsButPcT, t, engineVars, configVars, optimizer, goal,
                 test_sim, report, first_seek>>

\* backward_goal_seek, lines 38-45: mid_spend, and test_sim built from the
\* simulator's portfolio and a copy of its config with mid_spend
SeekTest ==
  /\ pc = "seek_loop"
  /\ seek.iteration < BISECTION_ITERATIONS
  /\ LET mid_spend == (seek.low_spend + seek.high_spend) \div 2
     IN  test_sim' = [mid_spend |-> mid_spend, monthly_spend |-> mid_spend,
                      q |-> 0, month |-> 0, portfolio |-> initial_portfolio,
                      rent |-> config.initial_rent, failed |-> FALSE,
                      last |-> 0, finals |-> <<>>]
  /\ pc' = "seek_run"
  /\ UNCHANGED <<coreVarsButPcT, t, engineVars, configVars, optimizer, goal,
                 seek, report, first_seek>>

\* test_sim after the month of its run is over: the next month of the path,
\* or the first month of the next path on a fresh copy of the portfolio
TestSimAdvance(ts, pf, rent, spend, is_failed, last) ==
  IF ts.month + 1 < Months
  THEN [ts EXCEPT !.month = @ + 1, !.portfolio = pf, !.rent = rent,
                  !.monthly_spend = spend, !.failed = is_failed,
                  !.last = last]
  ELSE [ts EXCEPT !.q = @ + 1, !.month = 0, !.portfolio = initial_portfolio,
                  !.rent = config.initial_rent, !.monthly_spend = spend,
                  !.failed = FALSE, !.last = 0,
                  !.finals = Append(@, last)]

\* backward_goal_seek, line 46: a month of test_sim.run(), on test_config
SeekRunMonth ==
  /\ pc = "seek_run"
  /\ test_sim.q < NumPaths
  /\ test_sim' =
       IF test_sim.failed
       THEN TestSimAdvance(test_sim, test_sim.portfolio, test_sim.rent,
                           test_sim.monthly_spend, TRUE, 0)
       ELSE LET test_config == [config EXCEPT
                                  !.monthly_spend = test_sim.monthly_spend]
                r == MonthStep(test_sim.portfolio, test_sim.rent, test_config,
                               map_events(config.events, Months),
                               scenarios[test_sim.q], test_sim.month)
            IN  TestSimAdvance(test_sim, r.portfolio, r.rent, r.monthly_spend,
                               r.failed, r.net_worth)
  /\ UNCHANGED <<coreVarsButPcT, pc, t, engineVars, configVars, optimizer,
                 goal, seek, report, first_seek>>

\* backward_goal_seek, lines 48-55: the run is over; prob_success and the
\* update of the bracket
SeekIteration ==
  /\ pc = "seek_run"
  /\ test_sim.q = NumPaths
  /\ seek' = BisectUpdate(seek, test_sim.mid_spend,
                          Succeeds(test_sim.finals, goal.target_nw,
                                   goal.target_probability))
  /\ pc' = "seek_loop"
  /\ UNCHANGED <<coreVarsButPcT, t, engineVars, configVars, optimizer, goal,
                 test_sim, report, first_seek>>

\* backward_goal_seek, lines 57-64: the loop is over, the outcome is printed
SeekReport ==
  /\ pc = "seek_loop"
  /\ seek.iteration = BISECTION_ITERATIONS
  /\ report' = ReportOf(seek.best_spend, config.monthly_spend)
  /\ pc' = "seek_done"
  /\ UNCHANGED <<coreVarsButPcT, t, engineVars, configVars, optimizer, goal, seek,
                 test_sim, first_seek>>

\* the caller keeps the outcome and asks again with the other probability
SeekAgain ==
  /\ pc = "seek_done"
  /\ first_seek = NoReport
  /\ first_seek' = report
  /\ goal' = [goal EXCEPT !.target_probability = goal.next_probability,
                          !.next_probability = goal.target_probability]
  /\ pc' = "analyzer"
  /\ UNCHANGED <<coreVarsButPcT, t, engineVars, configVars, optimizer, seek,
                 test_sim, report>>

NextSeek ==
  \/ SeekBegin
  \/ SeekTest
  \/ SeekRunMonth
  \/ SeekIteration
  \/ SeekReport
  \/ SeekAgain

SpecSeek == InitSeek /\ [][NextSeek]_vars

----------------------------------------------------------------------------
(* Properties of Simulator.run *)

\* the path being simulated has failed
PathFailed == pc = "month" /\ failed

\* every month of path q recorded from month first on, up to the months done
ZeroFrom(first, q) ==
  \A m \in MonthIdx : (first <= m /\ m < t) => results.net_worth[m][q] = 0

C1Step ==
  /\ (pc' = "month" /\ locals'.remaining_deficit > FAILURE_TOLERANCE)
       => PathFailed'
  /\ PathFailed' => /\ results'.liquidity_failure[p'] = 1
                    /\ ZeroFrom(locals.month, p)'
  /\ (PathFailed /\ pc' = "month")
       => /\ failed' /\ p' = p
          /\ port' = port /\ config' = config /\ locals' = locals
          /\ current_rent_base' = current_rent_base
  /\ (pc = "path" /\ pc' = "month") => (~failed' /\ t' = 0)

\* C1: once the solvency policy leaves more than $100 uncovered in month t of
\* path p, the path is failed and stays failed: liquidity_failure[p] is 1,
\* net_worth[t'][p] is 0 for every recorded month t' >= t, no further
\* transition touches the path's portfolio, rent or configuration, and the
\* next path starts not failed.
C1_FailedPathStaysFailed == [][C1Step]_vars

\* C1 witness: path 0 failed before its last month, its trailing months are
\* recorded as 0, and path 1 was simulated to the end with a net worth.
C1_Witness ==
  /\ pc = "returned" /\ run_no = 1
  /\ results.liquidity_failure[0] = 1
  /\ results.net_worth[0][0] # 0
  /\ results.net_worth[Months - 2][0] = 0
  /\ results.liquidity_failure[1] = 0
  /\ results.net_worth[Months - 1][1] > 0

\* a configuration with no event, no rent and no property to maintain, on a
\* path whose factors are all zero
ZeroConfiguration ==
  /\ scenarios[p] = Flat
  /\ caller_config.events = <<>>
  /\ caller_config.initial_rent = 0
  /\ \A i \in DOMAIN initial_portfolio.assets :
       initial_portfolio.assets[i].kind = "Asset"

\* C2: in a zero-volatility, zero-growth, zero-shock, zero-event
\* configuration, the net worth recorded for a path that has not failed (and
\* had every deficit covered in full) after t months is the initial net worth
\* plus t x (after-tax monthly income - essential spend) minus the interest
\* paid on the liabilities: principal repayments are net-worth-neutral, also
\* after a liability has been paid off.
C2_AccountingIdentity ==
  (pc = "month" /\ ~failed /\ t > 0 /\ ZeroConfiguration /\ locals.uncovered = 0)
    => results.net_worth[t - 1][p]
         = net_worth(initial_portfolio)
           + t * (AfterTax(SumSeq(initial_portfolio.incomes),
                           caller_config.tax_rate)
                  - caller_config.monthly_spend)
           - locals.interest_paid

\* the monthly_spend in force in month m of a path on which every event up to
\* month m was applied: the value of the last monthly_spend change, or base
RECURSIVE SpendInForce(_, _, _)
SpendInForce(events, m, base) ==
  IF m < 0 THEN base
  ELSE LET changes == SelectSeq(events, LAMBDA e :
                        /\ e.type = "param_change"
                        /\ e.param = "monthly_spend"
                        /\ e.month = m)
       IN  IF changes = <<>> THEN SpendInForce(events, m - 1, base)
           ELSE changes[Len(changes)].value

\* C3: in every path, the essential spend charged in a month before the
\* month k of a monthly_spend change is based on the value the caller
\* configured, and from month k on on the event's value.
C3_ParamChangePerPath ==
  (pc = "month" /\ locals.month >= 0)
    => locals.spend_base
         = SpendInForce(caller_config.events, locals.month,
                        caller_config.monthly_spend)

\* C4: the net-worth column and the failure flag of a path depend only on the
\* initial portfolio, the configuration as supplied and the path's slice of
\* the scenarios, so two paths with the same slice have the same column and
\* the same flag whatever their order.
C4_PathIndependence ==
  (pc = "returned" /\ run_no = 1)
    => \A a, b \in Paths :
         scenarios[a] = scenarios[b]
           => /\ results.liquidity_failure[a] = results.liquidity_failure[b]
              /\ \A m \in MonthIdx :
                   results.net_worth[m][a] = results.net_worth[m][b]

\* C5: a repeated run (run() again on the Simulator, or on a Simulator built
\* again from the same configuration object and portfolio) reproduces the
\* net_worth matrix and the liquidity_failure vector of the first run.
C5_Reproducible ==
  (pc = "returned" /\ run_no = 2) => results = first_results

\* C6: at the end of every simulated month of a path that has not failed,
\* every asset's value, the cash account's included, is >= 0.
C6_AssetsNonNegative ==
  (pc = "month" /\ ~failed /\ t > 0)
    => \A i \in DOMAIN port.assets : port.assets[i].value >= 0

\* C7: the cash outflow charged for a liability in a month never exceeds that
\* month's outstanding balance plus accrued interest.
C7_ChargeWithinDebt ==
  (pc = "month" /\ locals.month >= 0)
    => \A i \in DOMAIN locals.charged : locals.charged[i] <= locals.owed[i]

\* the events of months 0 .. upTo, by month and within a month in list order
RECURSIVE ExpectedLog(_, _)
ExpectedLog(events, upTo) ==
  IF upTo < 0 THEN <<>>
  ELSE LET due == SelectSeq(events, LAMBDA e : e.month = upTo)
       IN  ExpectedLog(events, upTo - 1)
             \o [i \in DOMAIN due |-> [month |-> upTo, event |-> due[i]]]

\* C10: in each path the events applied so far are exactly the events with
\* month 0 .. (last month simulated before any failure), each once, at the
\* step of its month, in list order within a month; an event with
\* month >= horizon is never scheduled or applied; the event list and the
\* schedule are never modified.
C10_EventsOnceInOrder ==
  /\ config.events = caller_config.events
  /\ pc = "month" =>
       /\ locals.month = (IF failed THEN locals.month ELSE t - 1)
       /\ locals.applied_log = ExpectedLog(caller_config.events, locals.month)
       /\ DOMAIN event_schedule \subseteq MonthIdx
       /\ \A m \in MonthIdx :
            ScheduledAt(event_schedule, m)
              = SelectSeq(caller_config.events, LAMBDA e : e.month = m)

\* C10 witness: a path on which two events of one month and then a later
\* month were simulated, while an event past the horizon is configured.
C10_Witness ==
  /\ pc = "month" /\ ~failed /\ t = Months
  /\ Len(locals.applied_log) >= 2
  /\ \E i \in DOMAIN locals.applied_log :
       /\ i + 1 \in DOMAIN locals.applied_log
       /\ locals.applied_log[i].month = locals.applied_log[i + 1].month
  /\ \E i \in DOMAIN caller_config.events :
       caller_config.events[i].month >= Months

----------------------------------------------------------------------------
(* Properties of Policies.standard_solvency *)

\* the claims' liquid asset: an Asset with allocation > 0
LiquidAsset(a) == a.kind = "Asset" /\ a.allocation > 0

\* the liquid assets' positions in the portfolio, in declaration order
RECURSIVE LiquidPositions(_, _)
LiquidPositions(assets, i) ==
  IF i > Len(assets) THEN <<>>
  ELSE (IF LiquidAsset(assets[i]) THEN <<i>> ELSE <<>>)
         \o LiquidPositions(assets, i + 1)

LiquidValue(assets) ==
  SumSeq([i \in DOMAIN assets |->
            IF LiquidAsset(assets[i]) THEN assets[i].value ELSE 0])

\* C8: standard_solvency(portfolio, d) sells the liquid assets in declaration
\* order, each down to zero before the next: there is a position k in the
\* list of liquid assets such that those before k are 0 and those after k
\* unchanged, the value removed is min(d, liquid value before), and the
\* remainder returned is max(0, d - liquid value before).
C8_DrainInOrder ==
  pc = "policy_done" =>
    LET before == sol_in.portfolio.assets
        after == sol_out.portfolio.assets
        pos == LiquidPositions(before, 1)
        d == sol_in.amount
    IN  /\ Len(after) = Len(before)
        /\ \E k \in 1 .. (Len(pos) + 1) :
             /\ \A j \in DOMAIN pos : j < k => after[pos[j]].value = 0
             /\ \A j \in DOMAIN pos : j > k => after[pos[j]] = before[pos[j]]
        /\ LiquidValue(before) - LiquidValue(after) = Min(d, LiquidValue(before))
        /\ sol_out.amount = Max(0, d - LiquidValue(before))

\* C8 witness: a deficit that empties one liquid asset, takes part of the
\* next one and leaves a third one alone.
C8_Witness ==
  /\ pc = "policy_done"
  /\ sol_out.amount = 0
  /\ Len(sol_in.portfolio.assets) = 3
  /\ \A i \in 1 .. 3 : LiquidAsset(sol_in.portfolio.assets[i])
  /\ sol_in.portfolio.assets[1].value > 0
  /\ sol_out.portfolio.assets[1].value = 0
  /\ sol_out.portfolio.assets[2].value > 0
  /\ sol_out.portfolio.assets[2].value < sol_in.portfolio.assets[2].value
  /\ sol_out.portfolio.assets[3].value = sol_in.portfolio.assets[3].value
  /\ sol_in.portfolio.assets[3].value > 0

\* C9: standard_solvency leaves every RealProperty and every Asset with
\* allocation 0 unchanged, and the liabilities and the incomes, for any
\* deficit.
C9_IlliquidUntouched ==
  pc = "policy_done" =>
    LET before == sol_in.portfolio
        after == sol_out.portfolio
    IN  /\ Len(after.assets) = Len(before.assets)
        /\ \A i \in DOMAIN before.assets :
             ~LiquidAsset(before.assets[i]) => after.assets[i] = before.assets[i]
        /\ after.liabilities = before.liabilities
        /\ after.incomes = before.incomes

\* C9 witness: the liquid assets did not cover the deficit while a property
\* and an Asset with allocation 0 were worth something.
C9_Witness ==
  /\ pc = "policy_done"
  /\ sol_out.amount > 0
  /\ \E i \in DOMAIN sol_in.portfolio.assets :
       /\ sol_in.portfolio.assets[i].kind = "RealProperty"
       /\ sol_in.portfolio.assets[i].value > 0
  /\ \E i \in DOMAIN sol_in.portfolio.assets :
       /\ sol_in.portfolio.assets[i].kind = "Asset"
       /\ sol_in.portfolio.assets[i].allocation = 0
       /\ sol_in.portfolio.assets[i].value > 0

----------------------------------------------------------------------------
(* C11: what a purchase does to the net-worth series *)

\* the down payments of the purchases among the events of a month
DownPayments(events) ==
  SumSeq([i \in DOMAIN events |->
            IF events[i].type = "purchase_asset" THEN events[i].down_payment
            ELSE 0])

\* a step of run that simulates month t of a path that has not failed, on a
\* path whose factors are all zero, with every deficit covered in full
FlatMonthStep ==
  /\ pc = "month" /\ t < Months /\ ~failed
  /\ t' = t + 1 /\ ~failed'
  /\ scenarios[p] = Flat
  /\ locals'.remaining_deficit = 0

\* the delta of the path's net-worth series at index t (at index 0, against
\* the net worth of the initial portfolio)
NetWorthDelta ==
  results'.net_worth[t][p]
    - (IF t = 0 THEN net_worth(initial_portfolio)
       ELSE results.net_worth[t - 1][p])

\* the month's ordinary cash flow as it shows in net worth: net_cash, with
\* the principal the liabilities were reduced by added back
OrdinaryCashFlow ==
  locals'.net_cash
    + (SumSeq(locals'.owed) - locals'.interest - total_liabilities(port'))

\* C11 as stated: a purchase_asset event of month k produces a net-worth
\* delta of -down_payment plus the month's ordinary cash flow at index k of
\* the path's series, and the months without a purchase show the ordinary
\* cash flow alone.
C11_DeltaIsDownPayment ==
  [][FlatMonthStep
       => NetWorthDelta = OrdinaryCashFlow - DownPayments(locals'.applied)]_vars

\* C11 amended: a purchase_asset event of month k takes down_payment from
\* cash exactly at step k and leaves net worth where the month's ordinary
\* cash flow puts it: the asset enters at cost, the liability at
\* cost - down_payment, so the purchase itself produces no net-worth delta
\* at index k, nor at any index before or after.
C11_PurchaseIsNetWorthNeutral ==
  [][FlatMonthStep
       => /\ NetWorthDelta = OrdinaryCashFlow
          /\ locals'.cash_in
               = port.assets[1].value - DownPayments(locals'.applied)]_vars

\* a purchase with a down payment was applied in the last month of a flat
\* path that has not failed
C11_Witness ==
  /\ pc = "month" /\ t > 0 /\ ~failed /\ locals.month = t - 1
  /\ scenarios[p] = Flat
  /\ locals.remaining_deficit = 0
  /\ \E i \in DOMAIN locals.applied :
       /\ locals.applied[i].type = "purchase_asset"
       /\ locals.applied[i].down_payment > 0
       /\ locals.applied[i].value > locals.applied[i].down_payment

----------------------------------------------------------------------------
(* C12: rent stops and maintenance starts with the purchase of a home *)

\* the purchases of a primary home that run schedules
HomePurchases(events) ==
  {i \in DOMAIN events :
     /\ events[i].type = "purchase_asset" /\ events[i].month < Months
     /\ events[i].is_real_estate /\ events[i].is_primary_home}

\* a property's value at the start of month upTo, bought or held at the
\* start of month from, after the housing growth of the months in between
RECURSIVE GrownValue(_, _, _, _)
GrownValue(path, value, from, upTo) ==
  IF from >= upTo THEN value
  ELSE GrownValue(path, value * (1 + path[from].house), from + 1, upTo)

\* the maintenance due in month m: on the properties of the initial
\* portfolio, and on the purchased homes from their month on
MaintenanceDue(pf, events, path, m) ==
  SumSeq([i \in DOMAIN pf.assets |->
            IF pf.assets[i].kind = "RealProperty"
            THEN (GrownValue(path, pf.assets[i].value, 0, m)
                    * pf.assets[i].maintenance_rate) \div 1200
            ELSE 0])
  + SumSeq([i \in DOMAIN events |->
              IF i \in HomePurchases(events) /\ events[i].month <= m
              THEN GrownValue(path, events[i].value, events[i].month, m)
                     \div 1200
              ELSE 0])

\* the configured events are purchases of primary homes or nothing
OnlyHomePurchases == HomePurchases(caller_config.events) = DOMAIN caller_config.events

\* C12: when a purchase_asset event flagged is_real_estate and
\* is_primary_home fires at month k of a path, the rent charged is the
\* inflation-indexed initial rent in every month before k and 0 in every
\* month from k on, while maintenance on the purchased property is charged
\* from month k on.
C12_RentStopsMaintenanceStarts ==
  (pc = "month" /\ locals.month >= 0 /\ OnlyHomePurchases)
    => LET m == locals.month
           bought == \E i \in HomePurchases(caller_config.events) :
                       caller_config.events[i].month <= m
       IN  /\ locals.current_rent_payment
                = IF bought THEN 0
                  ELSE caller_config.initial_rent
                         * cumulative_inflation(scenarios[p], m)
           /\ locals.maint_costs
                = MaintenanceDue(initial_portfolio, caller_config.events,
                                 scenarios[p], m)

\* a month from the month of the purchase on, on a path of rising prices that
\* paid rent before and pays maintenance now
C12_Witness ==
  /\ pc = "month" /\ ~failed
  /\ caller_config.initial_rent > 0
  /\ \E i \in HomePurchases(caller_config.events) :
       /\ caller_config.events[i].month > 0
       /\ caller_config.events[i].month <= locals.month
  /\ locals.current_rent_payment = 0
  /\ locals.maint_costs > 0
  /\ \E m \in MonthIdx : scenarios[p][m].inf > 0

----------------------------------------------------------------------------
(* C13: run leaves the initial portfolio alone *)

\* C13: Simulator.run never mutates the initial portfolio: no step of run
\* changes an asset value, a liability balance or an income amount of
\* initial_portfolio, because each path works on its own deep copy.
C13_InitialPortfolioUntouched == [][initial_portfolio' = initial_portfolio]_vars

\* run has returned, and the last path's copy differs from the initial
\* portfolio in an asset value, a liability balance and an income amount
C13_Witness ==
  /\ pc = "returned"
  /\ port_ref = "copy"
  /\ port.assets # initial_portfolio.assets
  /\ port.liabilities # initial_portfolio.liabilities
  /\ port.incomes # initial_portfolio.incomes

----------------------------------------------------------------------------
(* C15: essential spend compounds with inflation *)

RECURSIVE Pow(_, _)
Pow(b, e) == IF e = 0 THEN 1 ELSE b * Pow(b, e - 1)

\* the product of the entries of a sequence
RECURSIVE ProductOf(_)
ProductOf(seq) == IF seq = <<>> THEN 1 ELSE Head(seq) * ProductOf(Tail(seq))

\* no event of the configuration changes a parameter
NoParamChange ==
  \A i \in DOMAIN caller_config.events :
     caller_config.events[i].type # "param_change"

\* C15: the essential spend charged in month t of a path is the configured
\* base spend times the product of (1 + inflation_s / 12) over the months
\* s = 0..t, so that under constant inflation i it is
\* base_spend x (1 + i/12)^(t+1).
C15_SpendCompounds ==
  (pc = "month" /\ locals.month >= 0 /\ NoParamChange)
    => LET m == locals.month
           path == scenarios[p]
           base == caller_config.monthly_spend
       IN  /\ locals.current_monthly_spend
                = base * ProductOf([s \in 1 .. m + 1 |-> 1 + path[s - 1].inf])
           /\ \A i \in {0, 1} :
                (\A s \in MonthIdx : path[s].inf = i)
                  => locals.current_monthly_spend = base * Pow(1 + i, m + 1)

\* the third month of a path of constant inflation has been charged, at
\* eight times the base spend
C15_Witness ==
  /\ pc = "month"
  /\ NoParamChange
  /\ locals.month = 2
  /\ scenarios[p] = InflationPath
  /\ locals.current_monthly_spend = 8 * caller_config.monthly_spend

----------------------------------------------------------------------------
(* C14: fixed and floating liabilities *)

\* the rate of the claim: the liability's own whenever it has one, the
\* market's only for a floating liability
OwnOrFloating(debt, market_rate) ==
  IF debt.interest_rate # None THEN debt.interest_rate ELSE market_rate

\* C14: a liability with a fixed interest rate, a fixed rate of 0 included,
\* accrues interest at its own rate in every month whatever the path's
\* interest-rate factor is; only a floating liability (rate None) accrues at
\* the path's factor.  Every iteration of the loop moves each balance by the
\* interest at that rate less the payment, the payment capped at
\* balance + interest.
C14_FixedRateAccruesOwnRate ==
  [][(pc = "sim_loop" /\ t' = t + 1)
       => \A i \in DOMAIN state.liabilities :
            LET debt == state.liabilities[i]
                interest == (debt.balance
                               * OwnOrFloating(debt, market_paths[t].interest_rate))
                            \div 100
            IN  state'.liabilities[i].balance
                  = debt.balance + interest
                    - Min(debt.monthly_payment, debt.balance + interest)]_vars

----------------------------------------------------------------------------
(* C19: the scheduled events of simulator.py *)

\* the events of the steps before upTo: each at step 12 * year, the events
\* of one step in the order of the list
RECURSIVE ExpectedExecuted(_, _)
ExpectedExecuted(events, upTo) ==
  IF upTo = 0 THEN <<>>
  ELSE ExpectedExecuted(events, upTo - 1)
       \o SelectSeq([i \in DOMAIN events |-> [step |-> upTo - 1, event |-> i]],
                    LAMBDA e : 12 * events[e.event].year = upTo - 1)

\* what the events of step s take from net worth: a boat is paid from cash,
\* a vacation home enters the real estate at what it cost
PaidForBoats(events, s) ==
  SumSeq([i \in DOMAIN events |->
            IF 12 * events[i].year = s /\ events[i].action = "buy_boat"
            THEN events[i].amount ELSE 0])

\* the net worth before history row j (the rows are numbered from 1)
NetWorthBefore(j) ==
  IF j = 1 THEN state_net_worth(initial_state) ELSE history[j - 1].NetWorth

\* every liability accrues nothing: its rate is 0 or floats with a market
\* whose rate is 0
ZeroRates ==
  /\ market_paths = MarketZero
  /\ \A i \in DOMAIN initial_state.liabilities :
       ~Truthy(initial_state.liabilities[i].interest_rate)

\* C19: in run_single_simulation each ScheduledEvent with year y < years is
\* executed exactly once per path, at step 12*y before that step's
\* transition, so that its effect first appears in the history row of index
\* 12*y and in no earlier row; it is not executed if the path failed before
\* that step.
C19_EventsAtStartOfYear ==
  (pc \in {"sim_loop", "sim_returned"})
    => /\ Len(history) = t
       /\ executed = ExpectedExecuted(scheduled_events, t)
       /\ (pc = "sim_returned" /\ ~state.failed)
            => \A i \in DOMAIN scheduled_events :
                 scheduled_events[i].year < EngineYears
                   => Cardinality({k \in DOMAIN executed :
                                     executed[k].event = i}) = 1
       /\ ZeroRates
            => \A j \in DOMAIN history :
                 history[j].NetWorth - NetWorthBefore(j)
                   = MonthlyIncome(initial_state.salaries, 0)
                     - initial_state.essential_spend
                     - PaidForBoats(scheduled_events, j - 1)

\* a run that ended without failing and executed two events of year 1, one
\* of them paid from net worth
C19_Witness ==
  /\ pc = "sim_returned" /\ ~state.failed
  /\ scheduled_events = SameYear
  /\ ZeroRates
  /\ Len(executed) = 2
  /\ history[13].NetWorth - history[12].NetWorth
       = history[12].NetWorth - history[11].NetWorth - 100

----------------------------------------------------------------------------
(* C20: the accounting identity of simulator.py *)

----------------------------------------------------------------------------
(* C18: configuration errors *)

\* C18: constructing or running a Simulator with a zero or negative path
\* count or a zero or negative horizon raises an error to the caller before
\* any simulation work begins, instead of returning an empty result: such a
\* configuration is never past the attempt to build the Simulator without
\* an error raised.
C18_ConfigErrorsFailFast ==
  (requested.months <= 0 \/ requested.paths <= 0)
    => (pc = "unbuilt" \/ (pc = "raised" /\ error # "none"))

----------------------------------------------------------------------------
(* Properties of Analyzer.backward_goal_seek *)

\* the run the search makes with monthly_spend set to spend meets the goal
MeetsGoal(spend) ==
  Succeeds(final_nws(initial_portfolio,
                     [config EXCEPT !.monthly_spend = spend], scenarios),
           goal.target_nw, goal.target_probability)

\* the search printed a spend limit
Resolved(rep) == rep.outcome \in {"reduce", "increase"}

\* C16: backward_goal_seek never raises: it ends after exactly
\* BISECTION_ITERATIONS iterations and prints either a spend limit, which is
\* the best_spend of the loop and meets the goal, or 'Goal unreachable', which
\* it prints whenever no iteration met the goal
C16_SeekReportsOrUnreachable ==
  /\ pc = "seek_loop" => seek.iteration <= BISECTION_ITERATIONS
  /\ pc = "seek_done" =>
       /\ seek.iteration = BISECTION_ITERATIONS
       /\ error = "none"
       /\ report.outcome \in {"reduce", "increase", "unreachable"}
       /\ seek.best_spend = None => report.outcome = "unreachable"
       /\ Resolved(report) => /\ report.best_spend = seek.best_spend
                              /\ MeetsGoal(report.best_spend)

\* a search over a positive bracket in which no iteration met the goal has
\* ended with 'Goal unreachable'
C16_Witness ==
  /\ pc = "seek_done"
  /\ config.monthly_spend > 0
  /\ seek.iteration = BISECTION_ITERATIONS
  /\ seek.best_spend = None
  /\ report.outcome = "unreachable"

\* C17: of two searches on the same simulator, bracket and scenarios, the
\* second with the higher target_probability, both of which printed a spend
\* limit, the second's limit is at most the first's
C17_HigherProbabilityLowerLimit ==
  (/\ pc = "seek_done"
   /\ Resolved(first_seek)
   /\ Resolved(report)
   /\ goal.next_probability <= goal.target_probability)
    => report.best_spend <= first_seek.best_spend

\* the two searches printed different limits, the second the lower one
C17_Witness ==
  /\ pc = "seek_done"
  /\ Resolved(first_seek)
  /\ Resolved(report)
  /\ goal.next_probability < goal.target_probability
  /\ report.best_spend < first_seek.best_spend

\* C27: backward_goal_seek prints 'Goal unreachable' only if no iteration met
\* the goal; when an iteration did, also at the level 0 of a search whose
\* original spend is 0, it prints the last such level as the limit
C27_UnreachableOnlyIfNoLevelMet ==
  pc = "seek_done" =>
    /\ report.outcome = "unreachable" => seek.best_spend = None
    /\ seek.best_spend # None => /\ Resolved(report)
                                 /\ report.best_spend = seek.best_spend

----------------------------------------------------------------------------
(* Properties of PolicyEngine.manage_liquidity and check_failure *)

\* manage_liquidity, lines 9-10: min_cash of the state the policies were given
CashFloor == 3 * monthly_burn(initial_state)

\* manage_liquidity, lines 9-11: max_cash of the state the policies were given
CashCeiling == 6 * monthly_burn(initial_state)

\* the value of the investments with is_liquid
LiquidInvestments(st) ==
  SumSeq([i \in DOMAIN st.investments |->
            IF st.investments[i].is_liquid THEN st.investments[i].value ELSE 0])

\* the value of all the investments
AllInvestments(st) ==
  SumSeq([i \in DOMAIN st.investments |-> st.investments[i].value])

\* manage_liquidity has returned
Managed == pc \in {"managed", "checked"}

\* C21: with cash below 3 x monthly burn and liquid investments worth at
\* least the shortfall, manage_liquidity sells exactly the shortfall, cash
\* ends at the floor and check_failure does not mark the state; check_failure
\* marks a state exactly when its cash is negative, and then every liquid
\* investment has been sold to zero
C21_SellToFloorOrFail ==
  /\ (/\ Managed
      /\ initial_state.cash < CashFloor
      /\ LiquidInvestments(initial_state) >= CashFloor - initial_state.cash)
       => /\ state.cash = CashFloor
          /\ LiquidInvestments(state)
               = LiquidInvestments(initial_state)
                   - (CashFloor - initial_state.cash)
          /\ ~state.failed
  /\ pc = "checked" =>
       /\ state.failed <=> state.cash < 0
       /\ state.failed => LiquidInvestments(state) = 0

\* test_02_liquidity_crisis_policy with a second liquid account: negative
\* cash, both accounts sold pro rata, cash at the floor, not failed
C21_Witness ==
  /\ pc = "checked"
  /\ initial_state.cash < 0
  /\ Len(initial_state.investments) = 2
  /\ \A i \in DOMAIN state.investments :
       /\ initial_state.investments[i].is_liquid
       /\ state.investments[i].value < initial_state.investments[i].value
       /\ state.investments[i].value > 0
  /\ state.cash = CashFloor
  /\ ~state.failed

\* C22: an investment that is not liquid never receives the cash that
\* manage_liquidity sweeps, also when it is the first of state.investments
C22_SweepOnlyIntoLiquid ==
  Managed =>
    \A i \in DOMAIN initial_state.investments :
      ~initial_state.investments[i].is_liquid
        => state.investments[i].value <= initial_state.investments[i].value

\* C30: manage_liquidity moves value between cash and the investments and
\* changes nothing else: cash plus the investments is what it was, no
\* investment is negative, and salaries, liabilities, essential_spend,
\* real_estate and the failed flag are untouched
C30_LiquidityIsPureTransfer ==
  pc = "managed" =>
    /\ state.cash + AllInvestments(state)
         = initial_state.cash + AllInvestments(initial_state)
    /\ \A i \in DOMAIN state.investments : state.investments[i].value >= 0
    /\ Len(state.investments) = Len(initial_state.investments)
    /\ state.liabilities = initial_state.liabilities
    /\ state.salaries = initial_state.salaries
    /\ state.essential_spend = initial_state.essential_spend
    /\ state.real_estate = initial_state.real_estate
    /\ state.failed = initial_state.failed

\* liquid accounts worth less than the deficit have been sold to zero, each
\* for its own value, and cash is still under the floor
C30_Witness ==
  /\ pc = "managed"
  /\ LiquidInvestments(initial_state) > 0
  /\ LiquidInvestments(initial_state) < CashFloor - initial_state.cash
  /\ LiquidInvestments(state) = 0
  /\ state.cash = initial_state.cash + LiquidInvestments(initial_state)

----------------------------------------------------------------------------
(* C26: a liability's balance *)

\* C26: after every monthly step, in either engine, the liability's balance
\* is >= 0, and a balance that was 0 before the step is 0 after it, for every
\* payment >= 0 and every rate >= 0
C26_BalanceNeverNegative ==
  [][/\ \A i \in DOMAIN port.liabilities :
          /\ port'.liabilities[i].value >= 0
          /\ port.liabilities[i].value = 0 => port'.liabilities[i].value = 0
     /\ \A i \in DOMAIN state.liabilities :
          /\ state'.liabilities[i].balance >= 0
          /\ state.liabilities[i].balance = 0
               => state'.liabilities[i].balance = 0]_vars

\* both liabilities were paid off by a payment larger than what was owed and
\* stayed at 0 in the months that followed
C26_Witness ==
  /\ pc = "service_debt"
  /\ t = DebtSteps
  /\ initial_portfolio.liabilities[1].value > 0
  /\ initial_portfolio.liabilities[1].payment
       > initial_portfolio.liabilities[1].value
  /\ port.liabilities[1].value = 0
  /\ state.liabilities[1].balance = 0
  /\ state.cash = 0 - initial_state.liabilities[1].balance

----------------------------------------------------------------------------
(* Properties of the cash management of Simulator.run *)

\* the step is the iteration of the month loop for a path that has not failed
MonthRan == pc = "month" /\ ~failed /\ t' = t + 1

C28_DeficitFullyFunded ==
  [][(MonthRan /\ ~failed')
       => LiquidTotal(port') = locals'.liquid_grown + locals'.net_cash]_vars

----------------------------------------------------------------------------
(* Properties of Simulator._apply_event *)

\* the purchase events among the events of a month
Purchases(events) == SelectSeq(events, LAMBDA e : e.type = "purchase_asset")

\* the purchases whose financed remainder is above zero
Financed(events) ==
  SelectSeq(events, LAMBDA e : e.type = "purchase_asset"
                               /\ e.value - e.down_payment > 0)

\* one purchase event applied to a portfolio: one asset more, the last one,
\* named after the event and worth its value; cash lower by the down payment
\* and every other asset as it was; one liability more exactly if
\* value - down_payment > 0, the earlier ones as they were
OnePurchase(before, event, after) ==
  LET na == Len(before.assets)
      nl == Len(before.liabilities)
  IN  /\ Len(after.assets) = na + 1
      /\ after.assets[na + 1].name = event.name
      /\ after.assets[na + 1].value = event.value
      /\ after.assets[1].value = before.assets[1].value - event.down_payment
      /\ \A i \in 2..na : after.assets[i] = before.assets[i]
      /\ Len(after.liabilities)
           = nl + (IF event.value - event.down_payment > 0 THEN 1 ELSE 0)
      /\ \A i \in 1..nl : after.liabilities[i] = before.liabilities[i]
      /\ after.incomes = before.incomes

\* C25: every purchase_asset event that a month applies adds one asset worth
\* the event's value, also when down payment and financed amount are 0, and
\* one liability exactly if value - down_payment > 0, and leaves every other
\* asset but cash and every other liability as it was; over the month the
\* portfolio gains one asset per purchase and one liability per financed
\* purchase
C25_PurchaseAddsOneAsset ==
  [][MonthRan =>
       LET due == ScheduledAt(event_schedule, t)
       IN  /\ \A k \in DOMAIN due :
                due[k].type = "purchase_asset" =>
                  LET pre == ApplyEvents(port, config.monthly_spend,
                                         SubSeq(due, 1, k - 1),
                                         current_rent_base)
                      post == apply_event(pre.portfolio, pre.monthly_spend,
                                          due[k], pre.rent)
                  IN  OnePurchase(pre.portfolio, due[k], post.portfolio)
           /\ Len(port'.assets) = Len(port.assets) + Len(Purchases(due))
           /\ Len(port'.liabilities)
                = Len(port.liabilities) + Len(Financed(due))]_vars

\* the purchase with no down payment and nothing financed has been applied:
\* its asset, worth 0, is the last of the portfolio, and no liability came
\* with it
C25_Witness ==
  /\ pc = "month"
  /\ \E k \in DOMAIN locals.applied :
       /\ locals.applied[k].type = "purchase_asset"
       /\ locals.applied[k].value = 0
       /\ locals.applied[k].down_payment = 0
       /\ port.assets[Len(port.assets)].name = locals.applied[k].name
  /\ port.assets[Len(port.assets)].value = 0
  /\ Len(port.assets) = Len(initial_portfolio.assets) + 1
  /\ Len(port.liabilities) = Len(initial_portfolio.liabilities)

----------------------------------------------------------------------------
(* Properties of Analyzer.optimize_for_goals *)

\* an evaluation of objective_function has just returned
Evaluated == pc = "minimize" /\ optimizer.evaluations > 0

\* C23: the value objective_function returns for the lever x is the sum over
\* the goals of max(0, required - achieved) squared plus 0.0001 * |x|
\* (both sides times 100, in units of 0.0001: a shortfall of s per mille
\* squared is s * s / 100 units)
C23_PenaltyIsSquaredShortfall ==
  Evaluated =>
    optimizer.fun * 100
      = SumSeq([g \in DOMAIN optimizer.goals |->
                  shortfall(optimizer.goals[g].min_prob, optimizer.successes[g])
                  * shortfall(optimizer.goals[g].min_prob, optimizer.successes[g])])
        + 100 * Abs(optimizer.x)

\* the goals that the evaluation behind res left short
ShortGoals ==
  {g \in DOMAIN optimizer.goals :
     actual_prob(optimizer.res.successes[g]) < optimizer.goals[g].min_prob}

====
